---- MODULE Spec2Model ----
(***************************************************************************)
(* Model of the Da-editor rendering core (core/video_creator_pro.py,       *)
(* VideoCreatorPro v6) and of the step of the job runner that drives it    *)
(* (core/job_runner.py, JobRunner._create_outputs).                        *)
(*                                                                         *)
(* Times are integers in milliseconds.  The external encoder (ffmpeg), the *)
(* prober (ffprobe) and the filesystem are the environment: every          *)
(* invocation draws its outcome from the outcomes the real tool can have.  *)
(***************************************************************************)
EXTENDS Integers, Sequences, FiniteSets, TLC

VARIABLES
    fmt,                \* which render call runs: "slideshow", "portrait", "youtube"
    pc,                 \* position inside the render call
    assets,             \* the `images` argument: per asset "ok" | "corrupt" | "missing"
    videos,             \* the `videos` argument: per source "missing" | "unprobed" | duration
    images,             \* local `images` after the os.path.exists filter
    sound_files,        \* self.sound_files
    settings,           \* self.settings (the keys the render reads)
    seconds_per_image,  \* local `seconds_per_image` (ms)
    disk,               \* the named files of output_dir
    clip_disk,          \* the numbered files _p_clip_NNN.mp4 / _yt_clip_NNN.mp4
    temp_clips,         \* local `temp_clips`: indices of the clips that were kept
    clip_specs,         \* local `clip_specs` of create_youtube_mix
    final_specs,        \* local `final_specs` of create_youtube_mix
    total_dur,          \* local `total_dur` of create_youtube_mix
    loop_i,             \* index of the running for-loop
    result,             \* what the call returned: "pending" | "path" | "None" | "raised"
    hist,               \* what happened during the call (observations, not program state)
    job,                \* JobRunner._create_outputs: its position and its outputs
    plan,               \* the timeline of one render: durations, joins, stingers
    motion,             \* the zoom style chosen for every clip of one track
    validation,         \* one run of an output validator over one file
    call,               \* the external invocations of one render call, one at a time
    renders,            \* two render calls running side by side and the temp files they touch
    run,                \* JobRunner.run: the pipeline step, the clock and the alarm
    sting,              \* one run of the stinger selection of the mixer
    ui,                 \* DaEditorApp: the job list, the worker threads and the scheduled callbacks
    retry               \* one call through the retry_with_backoff wrapper

vars == << fmt, pc, assets, videos, images, sound_files, settings,
           seconds_per_image, disk, clip_disk, temp_clips, clip_specs,
           final_specs, total_dur, loop_i, result, hist, job, plan, motion, validation, call, renders, run, sting, ui, retry >>

renderVars == << fmt, pc, assets, videos, images, sound_files, settings,
                 seconds_per_image, disk, clip_disk, temp_clips, clip_specs,
                 final_specs, total_dur, loop_i, result, hist >>

\* everything that is not state of the render call
otherVars == << job, plan, motion, validation, call, renders, run, sting, ui, retry >>

\* what the steps of _create_outputs leave alone
jobFrame == << renderVars, plan, motion, validation, call, renders, run, sting, ui, retry >>

\* what the steps of the timeline leave alone
planFrame == << renderVars, job, motion, validation, call, renders, run, sting, ui, retry >>

----------------------------------------------------------------------------
(* Bounds of the model *)

MaxImages == 2          \* longest `images` argument
MaxDraw == 3            \* most sub-clips drawn from one source video

----------------------------------------------------------------------------
(* Small helpers *)

Min(a, b) == IF a < b THEN a ELSE b
Max(a, b) == IF a > b THEN a ELSE b

RECURSIVE SelectSeqIdx(_, _, _)
\* the indices i of s, in order, from `from` on, with s[i] # "missing"
SelectSeqIdx(s, from, acc) ==
    IF from > Len(s) THEN acc
    ELSE SelectSeqIdx(s, from + 1,
                      IF s[from] # "missing" THEN Append(acc, s[from]) ELSE acc)

\* images = [img for img in images if os.path.exists(img)]
ExistingOnly(s) == SelectSeqIdx(s, 1, << >>)

AllOk(s) == \A i \in 1..Len(s) : s[i] = "ok"

----------------------------------------------------------------------------
(* Files *)

NoFile == [there |-> FALSE, big |-> FALSE, video |-> FALSE, units |-> 0,
           dur |-> 0, sting |-> << >>, stale |-> FALSE]

\* a complete encode of `units` clips lasting `dur` ms
Clip(units, dur) == [there |-> TRUE, big |-> TRUE, video |-> TRUE, units |-> units,
                     dur |-> dur, sting |-> << >>, stale |-> FALSE]

\* exit code 0 but a near-empty file (under the 1000-byte floor)
TinyFile == [there |-> TRUE, big |-> FALSE, video |-> TRUE, units |-> 0,
             dur |-> 0, sting |-> << >>, stale |-> FALSE]

\* what a failed encode leaves behind when it had already opened its output
PartialFile == [there |-> TRUE, big |-> FALSE, video |-> FALSE, units |-> 0,
                dur |-> 0, sting |-> << >>, stale |-> FALSE]

\* a playable file left in the directory by an earlier render
StaleFile == [there |-> TRUE, big |-> TRUE, video |-> TRUE, units |-> 1,
              dur |-> 4000, sting |-> << >>, stale |-> TRUE]

\* a concat manifest written by open(concat_file, "w")
ManifestFile == [there |-> TRUE, big |-> FALSE, video |-> FALSE, units |-> 0,
                 dur |-> 0, sting |-> << >>, stale |-> FALSE]

TEMP_SINGLE == "_single_pass.mp4"
TEMP_PORTRAIT == "_portrait_single.mp4"
TEMP_PORTRAIT_AUDIO == "_portrait_audio.mp4"
TEMP_FACE == "_face_overlay_temp.mp4"
TEMP_P_CONCAT == "_p_concat.txt"
TEMP_YT == "_yt_single.mp4"
TEMP_YT_CONCAT == "_yt_concat.txt"
OUTPUT == "output_path"

TempNames == { TEMP_SINGLE, TEMP_PORTRAIT, TEMP_PORTRAIT_AUDIO, TEMP_FACE,
               TEMP_P_CONCAT, TEMP_YT, TEMP_YT_CONCAT }
FileNames == TempNames \cup { OUTPUT }

----------------------------------------------------------------------------
(* The external encoder: subprocess.run(["ffmpeg", ...]) *)

\* "ok":      exit 0, the output is written in full
\* "tiny":    exit 0, the output is a near-empty file
\* "partial": exit # 0 after the output was opened: a truncated file is left
\* "fail":    exit # 0, the output path is not touched
\* "raise":   subprocess.run itself raises (OSError)
EncOutcomes(inputs_ok) ==
    IF inputs_ok THEN { "ok", "tiny", "partial", "fail", "raise" }
    ELSE { "fail" }

ReturnCodeZero(o) == o \in { "ok", "tiny" }

\* the file at the output path after the invocation
EncWrite(o, old, new) ==
    CASE o = "ok" -> new
      [] o = "tiny" -> TinyFile
      [] o = "partial" -> PartialFile
      [] OTHER -> old

\* shutil.move / shutil.copy / open(): done, or OSError
FsOutcomes == { "ok", "raise" }

\* a fault of the environment, as opposed to a bad asset
EnvFault(o) == o # "ok"

----------------------------------------------------------------------------
(* Output Validator: VideoCreatorPro._validate_output *)

\* ffprobe: "ok" prints the codec of the first video stream (nothing when the
\* file has none), "fail" exits non-zero, "raise" raises inside the try
ProbeOutcomes == { "ok", "fail", "raise" }

_validate_output(f, probe) ==
    /\ f.there                        \* os.path.exists(path)
    /\ f.big                          \* os.path.getsize(path) >= 10000
    /\ probe = "ok" /\ f.video        \* returncode == 0 and stdout.strip()

\* mutant: the gate returns the path of any file that exists
RenderAcceptsUnchecked(f, probe) == f.there

\* `if os.path.exists(output_path) and self._validate_output(output_path)`
RenderAccepts(f, probe) == f.there /\ _validate_output(f, probe)

\* mutant: no except clause, the exception leaves the call
RenderExceptMissing == "raised"

\* the `except Exception` clause that closes each render call
RenderExcept == "None"

----------------------------------------------------------------------------
(* Per-unit duration (PREPARE) *)

SECONDS_PER_IMAGE_DEFAULT == 4000
CLAMP_LOW == 2500
CLAMP_HIGH == 6000
TRANSITION_DUR == 500

\* create_slideshow: seconds_per_image
SlideshowSecondsPerImage(st, n) ==
    IF st.hasTarget /\ st.targetDuration # 0 /\ n > 0
    THEN Max(CLAMP_LOW, Min(CLAMP_HIGH, st.targetDuration \div n))
    ELSE st.secondsPerImage

\* create_portrait: seconds_per_image (the target duration is not read)
PortraitSecondsPerImage(st, n) == st.secondsPerImage

----------------------------------------------------------------------------
(* History of one call *)

NoHist == [ single_pass |-> "none",     \* return of _build_slideshow_single_pass
            fallback_calls |-> 0,       \* calls of _build_slideshow_fallback
            fallback_ret |-> "none",
            fallback_images |-> << >>,  \* the images handed to the fallback
            composite |-> NoFile,       \* the composite track handed to the audio stage
            sfx |-> "none",             \* "skipped" | "move" | "copy" | "merged" | "merge_failed"
            merge |-> "none",           \* how the merge invocation ended, if it ran
            stingers |-> << >>,         \* delays (ms) of the stingers the mixer placed
            probe |-> "none",           \* verdict of the validator on output_path
            caught |-> FALSE,           \* an exception reached the render's except clause
            fault |-> FALSE,            \* an invocation on sound inputs did not succeed
            failed_at |-> "none" ]      \* stage whose `return None` ended the call

Finish(res, h) ==
    /\ result' = res
    /\ pc' = "done"
    /\ hist' = h

\* an exception raised inside the try block of the render call
Raise(h) == Finish(RenderExcept, [h EXCEPT !.caught = TRUE, !.fault = TRUE])

----------------------------------------------------------------------------
(* Audio Sting Mixer: VideoCreatorPro._add_sfx_single_pass *)

STINGER_LEAD == 400         \* current_time = clip_duration - 0.4
STINGER_CAP == 30           \* range(min(num_transitions, 30))
AUDIO_TAIL == 2000          \* total_duration = num_clips * clip_duration + 2

RECURSIVE StingerLoop(_, _, _, _, _)
\* the for-loop that fills `delays`: i counts the iterations done
StingerLoop(i, limit, current_time, clip_duration, total_duration) ==
    IF i >= limit \/ current_time >= total_duration - 1000
    THEN << >>
    ELSE << current_time >> \o
         StingerLoop(i + 1, limit, current_time + clip_duration,
                     clip_duration, total_duration)

\* mutant: one stinger for every clip, the last one included
StingerDelaysPerClip(num_clips, clip_duration) ==
    StingerLoop(0, Min(num_clips, STINGER_CAP),
                clip_duration - STINGER_LEAD, clip_duration,
                num_clips * clip_duration + AUDIO_TAIL)

\* `delays` for num_clips clips of clip_duration ms
StingerDelays(num_clips, clip_duration) ==
    IF num_clips - 1 <= 0 THEN << >>
    ELSE StingerLoop(0, Min(num_clips - 1, STINGER_CAP),
                     clip_duration - STINGER_LEAD, clip_duration,
                     num_clips * clip_duration + AUDIO_TAIL)

\* length (ms) of a sound file of the pool
SoundLength(sound) == 1000

\* end of the mixed track: amix=duration=longest over the delayed sounds
AudioEnd(delays) == delays[Len(delays)] + SoundLength("any")

\* the merged file: video copied, mixed audio attached, cut by -shortest
Merged(v, delays) ==
    [v EXCEPT !.sting = delays, !.dur = Min(v.dur, AudioEnd(delays))]

\* shutil.copy(src, dst) ending `oc`: it raises when src is missing
CopyRaises(d, src, oc) == ~(oc = "ok" /\ d[src].there)
CopyFile(d, src, dst, oc) ==
    IF CopyRaises(d, src, oc) THEN d ELSE [d EXCEPT ![dst] = d[src]]

\* mutant: the source is removed but nothing arrives at dst
MoveFileDropped(d, src, dst, oc) ==
    IF CopyRaises(d, src, oc) THEN d ELSE [d EXCEPT ![src] = NoFile]

\* shutil.move(src, dst) ending `oc`
MoveFile(d, src, dst, oc) ==
    IF CopyRaises(d, src, oc) THEN d
    ELSE [d EXCEPT ![dst] = d[src], ![src] = NoFile]

\* mutant: a failed merge is not replaced by the video-only copy
MergeNeverFallsBack(om) == FALSE

\* `if result.returncode != 0: shutil.copy(video_path, output_path)`
MergeFallsBack(om) == ~ReturnCodeZero(om)

\* _add_sfx_single_pass(video_path, output_path, num_clips, clip_duration, volume)
\* with the merge ending `om` and the shutil.copy ending `oc`:
\* the disk afterwards, whether it raised, and what it did
AddSfx(d, pool, video_path, output_path, num_clips, clip_duration, om, oc) ==
    LET v == d[video_path]
        delays == StingerDelays(num_clips, clip_duration)
        d2 == [d EXCEPT ![output_path] =
                   EncWrite(om, d[output_path], Merged(v, delays))]
    IN  IF pool = << >> \/ num_clips - 1 <= 0 \/ delays = << >>
        THEN [disk |-> CopyFile(d, video_path, output_path, oc),
              raised |-> CopyRaises(d, video_path, oc),
              stingers |-> << >>, sfx |-> "copy", merge |-> "none"]
        ELSE IF om = "raise"
        THEN [disk |-> d, raised |-> TRUE, stingers |-> delays,
              sfx |-> "merge_raised", merge |-> om]
        ELSE IF MergeFallsBack(om)
        THEN [disk |-> CopyFile(d2, video_path, output_path, oc),
              raised |-> CopyRaises(d2, video_path, oc),
              stingers |-> delays, sfx |-> "merge_failed", merge |-> om]
        ELSE [disk |-> d2, raised |-> FALSE,
              stingers |-> delays, sfx |-> "merged", merge |-> om]

\* the outcomes of the merge invocation for this video file
MergeOutcomes(v) == EncOutcomes(v.there /\ v.video /\ v.big)

----------------------------------------------------------------------------
(* Inputs *)

AssetLists == UNION { [1..n -> { "ok", "corrupt", "missing" }] : n \in 0..MaxImages }

SoundPools == { << >>, << "ching", "boom", "whoosh" >> }

\* self.settings: secondsPerImage, targetDuration (hasTarget: the key is set),
\* faceOverlayPath ("none": unset or not on disk, "ok": an image on disk)
SettingsOf(target, overlay) ==
    [ secondsPerImage |-> SECONDS_PER_IMAGE_DEFAULT,
      hasTarget |-> target # 0, targetDuration |-> target,
      faceOverlay |-> overlay ]

TargetChoices == { 0, 6000 }

EmptyDisk == [f \in FileNames |-> NoFile]

\* the directory before the call: clean, or holding what an earlier
\* create_slideshow into the same folder left (its output or its temp file)
StaleDisks == { EmptyDisk,
                [EmptyDisk EXCEPT ![OUTPUT] = StaleFile],
                [EmptyDisk EXCEPT ![TEMP_SINGLE] = StaleFile] }

----------------------------------------------------------------------------
(* Output 1: VideoCreatorPro.create_slideshow *)

\* _build_slideshow_single_pass: its return for exit outcome o and output f
SinglePassReturn(o, f) == ReturnCodeZero(o) /\ f.there /\ f.big

\* _build_slideshow_fallback: its return
FallbackReturn(o, f) == ReturnCodeZero(o) /\ f.there

\* mutant: the rejected single pass is not retried
NeverRetries(success) == FALSE

\* `if not success:` after the single pass: try the fallback
RetriesWithFallback(success) == ~success

\* duration of the cross-dissolved track: every xfade overlaps two clips
XfadeDuration(n, d) == n * d - (n - 1) * TRANSITION_DUR

Faulted(h, inputs_ok, o) == [h EXCEPT !.fault = @ \/ (inputs_ok /\ EnvFault(o))]

SlidePrepare ==
    /\ fmt = "slideshow" /\ pc = "start"
    /\ images' = ExistingOnly(assets)
    /\ IF images' = << >>
       THEN /\ Finish("None", [hist EXCEPT !.failed_at = "prepare"])
            /\ UNCHANGED seconds_per_image
       ELSE /\ seconds_per_image' = SlideshowSecondsPerImage(settings, Len(images'))
            /\ pc' = "compose"
            /\ UNCHANGED << result, hist >>
    /\ UNCHANGED << fmt, assets, videos, sound_files, settings, disk, clip_disk,
                    temp_clips, clip_specs, final_specs, total_dur, loop_i, otherVars >>

\* len(images) == 1: _create_single_image_video, its return value is dropped
SlideSingleImage ==
    /\ fmt = "slideshow" /\ pc = "compose" /\ Len(images) = 1
    /\ \E o \in EncOutcomes(AllOk(images)) :
         IF o = "raise"
         THEN Raise(hist) /\ UNCHANGED disk
         ELSE /\ disk' = [disk EXCEPT ![TEMP_SINGLE] =
                              EncWrite(o, @, Clip(1, seconds_per_image))]
              /\ pc' = "audio"
              /\ hist' = Faulted(hist, AllOk(images), o)
              /\ UNCHANGED result
    /\ UNCHANGED << fmt, assets, videos, images, sound_files, settings,
                    seconds_per_image, clip_disk, temp_clips, clip_specs,
                    final_specs, total_dur, loop_i, otherVars >>

\* len(images) >= 2: _build_slideshow_single_pass
SlideSinglePass ==
    /\ fmt = "slideshow" /\ pc = "compose" /\ Len(images) >= 2
    /\ \E o \in EncOutcomes(AllOk(images)) :
         IF o = "raise"
         THEN Raise(hist) /\ UNCHANGED disk
         ELSE LET n == Len(images)
                  f == EncWrite(o, disk[TEMP_SINGLE],
                                Clip(n, XfadeDuration(n, seconds_per_image)))
                  success == SinglePassReturn(o, f)
              IN  /\ disk' = [disk EXCEPT ![TEMP_SINGLE] = f]
                  /\ pc' = IF RetriesWithFallback(success) THEN "fallback" ELSE "audio"
                  /\ hist' = [Faulted(hist, AllOk(images), o) EXCEPT
                                 !.single_pass = IF success THEN "true" ELSE "false"]
                  /\ UNCHANGED result
    /\ UNCHANGED << fmt, assets, videos, images, sound_files, settings,
                    seconds_per_image, clip_disk, temp_clips, clip_specs,
                    final_specs, total_dur, loop_i, otherVars >>

\* _build_slideshow_fallback, then `if not success: return None`
SlideFallback ==
    /\ fmt = "slideshow" /\ pc = "fallback"
    /\ \E o \in EncOutcomes(AllOk(images)) :
         IF o = "raise"
         THEN Raise([hist EXCEPT !.fallback_calls = @ + 1,
                                 !.fallback_images = images])
              /\ UNCHANGED disk
         ELSE LET n == Len(images)
                  f == EncWrite(o, disk[TEMP_SINGLE], Clip(n, n * seconds_per_image))
                  success == FallbackReturn(o, f)
                  h == [Faulted(hist, AllOk(images), o) EXCEPT
                           !.fallback_calls = @ + 1,
                           !.fallback_images = images,
                           !.fallback_ret = IF success THEN "true" ELSE "false"]
              IN  /\ disk' = [disk EXCEPT ![TEMP_SINGLE] = f]
                  /\ IF success
                     THEN pc' = "audio" /\ hist' = h /\ UNCHANGED result
                     ELSE Finish("None", [h EXCEPT !.failed_at = "compose"])
    /\ UNCHANGED << fmt, assets, videos, images, sound_files, settings,
                    seconds_per_image, clip_disk, temp_clips, clip_specs,
                    final_specs, total_dur, loop_i, otherVars >>

\* "Add SFX in ONE audio pass", or move the video-only track to output_path
SlideAudio ==
    /\ fmt = "slideshow" /\ pc = "audio"
    /\ LET v == disk[TEMP_SINGLE]
           h0 == [hist EXCEPT !.composite = v]
       IN  IF sound_files # << >> /\ v.there
           THEN \E om \in MergeOutcomes(v), oc \in FsOutcomes :
                  LET r == AddSfx(disk, sound_files, TEMP_SINGLE, OUTPUT,
                                  Len(images), seconds_per_image, om, oc)
                      h == [h0 EXCEPT !.sfx = r.sfx, !.stingers = r.stingers, !.merge = r.merge,
                                      !.fault = @ \/ r.raised \/ (r.sfx # "copy" /\ om # "ok")]
                  IN  /\ disk' = r.disk
                      /\ IF r.raised THEN Raise(h)
                         ELSE pc' = "cleanup" /\ hist' = h /\ UNCHANGED result
           ELSE IF v.there
           THEN \E oc \in FsOutcomes :
                  /\ disk' = MoveFile(disk, TEMP_SINGLE, OUTPUT, oc)
                  /\ IF CopyRaises(disk, TEMP_SINGLE, oc)
                     THEN Raise([h0 EXCEPT !.sfx = "move"])
                     ELSE /\ pc' = "cleanup"
                          /\ hist' = [h0 EXCEPT !.sfx = "move"]
                          /\ UNCHANGED result
           ELSE /\ pc' = "cleanup"
                /\ hist' = [h0 EXCEPT !.sfx = "skipped"]
                /\ UNCHANGED << disk, result >>
    /\ UNCHANGED << fmt, assets, videos, images, sound_files, settings,
                    seconds_per_image, clip_disk, temp_clips, clip_specs,
                    final_specs, total_dur, loop_i, otherVars >>

\* _safe_delete(path): never raises
SafeDelete(d, path) == [d EXCEPT ![path] = NoFile]

\* "# Cleanup": self._safe_delete(temp_video)
SlideCleanup ==
    /\ fmt = "slideshow" /\ pc = "cleanup"
    /\ disk' = SafeDelete(disk, TEMP_SINGLE)
    /\ pc' = "validate"
    /\ UNCHANGED << fmt, assets, videos, images, sound_files, settings,
                    seconds_per_image, clip_disk, temp_clips, clip_specs,
                    final_specs, total_dur, loop_i, result, hist, otherVars >>

\* the closing gate of all three render calls:
\* `if os.path.exists(output_path) and self._validate_output(output_path):
\*      return output_path` / `return None`
Validate ==
    /\ pc = "validate"
    /\ \E p \in (IF disk[OUTPUT].there /\ disk[OUTPUT].big
                 THEN ProbeOutcomes ELSE { "none" }) :
         LET ok == RenderAccepts(disk[OUTPUT], p)
             valid == _validate_output(disk[OUTPUT], p)
         IN  Finish(IF ok THEN "path" ELSE "None",
                    [hist EXCEPT !.probe = IF valid THEN "accepted" ELSE "rejected",
                                 !.fault = @ \/ p \in { "fail", "raise" },
                                 !.failed_at = IF ok THEN "none" ELSE "validate"])
    /\ UNCHANGED << fmt, assets, videos, images, sound_files, settings,
                    seconds_per_image, disk, clip_disk, temp_clips, clip_specs,
                    final_specs, total_dur, loop_i, otherVars >>

----------------------------------------------------------------------------
(* Output 2: VideoCreatorPro.create_portrait *)

ClipIndices == 1..Max(MaxImages, MaxDraw)
NoClips == [i \in ClipIndices |-> NoFile]

\* `if result.returncode == 0 and os.path.exists(clip_path)`: keep the clip
ClipKept(o, f) == ReturnCodeZero(o) /\ f.there

\* every clip named in the concat manifest can be read by the encoder
ClipsReadable(cd, idx) ==
    \A k \in 1..Len(idx) : cd[idx[k]].there /\ cd[idx[k]].big /\ cd[idx[k]].video

RECURSIVE SumDur(_, _)
SumDur(cd, idx) ==
    IF idx = << >> THEN 0 ELSE cd[Head(idx)].dur + SumDur(cd, Tail(idx))

\* "# Cleanup": for clip in temp_clips: self._safe_delete(clip)
DeleteClips(cd, idx) ==
    [i \in DOMAIN cd |-> IF \E k \in 1..Len(idx) : idx[k] = i THEN NoFile ELSE cd[i]]

\* _build_portrait_single_pass: its return after the concat
PortraitPassReturn(o, f) == ReturnCodeZero(o) /\ f.there /\ f.big

PortraitPrepare ==
    /\ fmt = "portrait" /\ pc = "start"
    /\ images' = ExistingOnly(assets)
    /\ IF images' = << >>
       THEN /\ Finish("None", [hist EXCEPT !.failed_at = "prepare"])
            /\ UNCHANGED << seconds_per_image, loop_i >>
       ELSE /\ seconds_per_image' = PortraitSecondsPerImage(settings, Len(images'))
            /\ pc' = "p_clips"
            /\ loop_i' = 1
            /\ UNCHANGED << result, hist >>
    /\ UNCHANGED << fmt, assets, videos, sound_files, settings, disk, clip_disk,
                    temp_clips, clip_specs, final_specs, total_dur, otherVars >>

\* one iteration of `for i, img in enumerate(images)`: encode _p_clip_NNN.mp4
PortraitClip ==
    /\ fmt = "portrait" /\ pc = "p_clips" /\ loop_i <= Len(images)
    /\ \E o \in EncOutcomes(images[loop_i] = "ok") :
         IF o = "raise"
         THEN Raise(hist) /\ UNCHANGED << clip_disk, temp_clips, loop_i >>
         ELSE LET f == EncWrite(o, clip_disk[loop_i], Clip(1, seconds_per_image))
              IN  /\ clip_disk' = [clip_disk EXCEPT ![loop_i] = f]
                  /\ temp_clips' = IF ClipKept(o, f)
                                   THEN Append(temp_clips, loop_i) ELSE temp_clips
                  /\ loop_i' = loop_i + 1
                  /\ hist' = Faulted(hist, images[loop_i] = "ok", o)
                  /\ UNCHANGED << pc, result >>
    /\ UNCHANGED << fmt, assets, videos, images, sound_files, settings,
                    seconds_per_image, disk, clip_specs,
                    final_specs, total_dur, otherVars >>

\* the rest of _build_portrait_single_pass: the concat manifest, the concat,
\* the cleanup and the return; then `if not success: return None`
PortraitConcat ==
    /\ fmt = "portrait" /\ pc = "p_clips" /\ loop_i > Len(images)
    /\ IF temp_clips = << >>
       THEN /\ Finish("None", [hist EXCEPT !.failed_at = "normalize"])
            /\ UNCHANGED << disk, clip_disk, temp_clips >>
       ELSE \E ow \in FsOutcomes, o \in EncOutcomes(ClipsReadable(clip_disk, temp_clips)) :
              IF ow = "raise"
              THEN Raise(hist) /\ UNCHANGED << disk, clip_disk, temp_clips >>
              ELSE IF o = "raise"
              THEN /\ Raise(hist)
                   /\ disk' = [disk EXCEPT ![TEMP_P_CONCAT] = ManifestFile]
                   /\ UNCHANGED << clip_disk, temp_clips >>
              ELSE LET f == EncWrite(o, disk[TEMP_PORTRAIT],
                                     Clip(Len(temp_clips), SumDur(clip_disk, temp_clips)))
                       success == PortraitPassReturn(o, f)
                       h == Faulted(hist, ClipsReadable(clip_disk, temp_clips), o)
                   IN  /\ disk' = [disk EXCEPT ![TEMP_PORTRAIT] = f,
                                               ![TEMP_P_CONCAT] = NoFile]
                       /\ clip_disk' = DeleteClips(clip_disk, temp_clips)
                       /\ temp_clips' = << >>
                       /\ IF success
                          THEN pc' = "p_audio" /\ hist' = h /\ UNCHANGED result
                          ELSE Finish("None", [h EXCEPT !.failed_at = "compose"])
    /\ UNCHANGED << fmt, assets, videos, images, sound_files, settings,
                    seconds_per_image, clip_specs, final_specs, total_dur,
                    loop_i, otherVars >>

\* "# Add SFX": into _portrait_audio.mp4, or move the video-only track there
PortraitAudio ==
    /\ fmt = "portrait" /\ pc = "p_audio"
    /\ LET v == disk[TEMP_PORTRAIT]
           h0 == [hist EXCEPT !.composite = v]
       IN  IF sound_files # << >>
           THEN \E om \in MergeOutcomes(v), oc \in FsOutcomes :
                  LET r == AddSfx(disk, sound_files, TEMP_PORTRAIT, TEMP_PORTRAIT_AUDIO,
                                  Len(images), seconds_per_image, om, oc)
                      h == [h0 EXCEPT !.sfx = r.sfx, !.stingers = r.stingers, !.merge = r.merge,
                                      !.fault = @ \/ r.raised
                                                  \/ (r.sfx # "copy" /\ om # "ok")]
                  IN  IF r.raised
                      THEN disk' = r.disk /\ Raise(h)
                      ELSE /\ disk' = SafeDelete(r.disk, TEMP_PORTRAIT)
                           /\ pc' = "p_overlay" /\ hist' = h /\ UNCHANGED result
           ELSE \E oc \in FsOutcomes :
                  /\ disk' = MoveFile(disk, TEMP_PORTRAIT, TEMP_PORTRAIT_AUDIO, oc)
                  /\ IF CopyRaises(disk, TEMP_PORTRAIT, oc)
                     THEN Raise([h0 EXCEPT !.sfx = "move"])
                     ELSE /\ pc' = "p_overlay"
                          /\ hist' = [h0 EXCEPT !.sfx = "move"]
                          /\ UNCHANGED result
    /\ UNCHANGED << fmt, assets, videos, images, sound_files, settings,
                    seconds_per_image, clip_disk, temp_clips, clip_specs,
                    final_specs, total_dur, loop_i, otherVars >>

\* _add_face_overlay: its own try/except turns every exception into None
FaceOverlayReturn(o, f) == o # "raise" /\ ReturnCodeZero(o) /\ f.there

\* "# Add face overlay if enabled", then the move to output_path
PortraitOverlay ==
    /\ fmt = "portrait" /\ pc = "p_overlay"
    /\ LET v == disk[TEMP_PORTRAIT_AUDIO]
       IN  IF settings.faceOverlay = "ok"
           THEN \E o \in EncOutcomes(v.there /\ v.big /\ v.video), oc \in FsOutcomes :
                  LET f == EncWrite(o, disk[TEMP_FACE], [v EXCEPT !.stale = FALSE])
                      d1 == [disk EXCEPT ![TEMP_FACE] = f]
                      h == Faulted(hist, v.there /\ v.big /\ v.video, o)
                  IN  IF FaceOverlayReturn(o, f)
                      THEN LET d2 == SafeDelete(d1, TEMP_PORTRAIT_AUDIO)
                           IN  /\ disk' = MoveFile(d2, TEMP_FACE, OUTPUT, oc)
                               /\ IF CopyRaises(d2, TEMP_FACE, oc)
                                  THEN Raise(h)
                                  ELSE pc' = "validate" /\ hist' = h /\ UNCHANGED result
                      ELSE /\ disk' = MoveFile(d1, TEMP_PORTRAIT_AUDIO, OUTPUT, oc)
                           /\ IF CopyRaises(d1, TEMP_PORTRAIT_AUDIO, oc)
                              THEN Raise(h)
                              ELSE pc' = "validate" /\ hist' = h /\ UNCHANGED result
           ELSE \E oc \in FsOutcomes :
                  /\ disk' = MoveFile(disk, TEMP_PORTRAIT_AUDIO, OUTPUT, oc)
                  /\ IF CopyRaises(disk, TEMP_PORTRAIT_AUDIO, oc)
                     THEN Raise(hist)
                     ELSE pc' = "validate" /\ UNCHANGED << hist, result >>
    /\ UNCHANGED << fmt, assets, videos, images, sound_files, settings,
                    seconds_per_image, clip_disk, temp_clips, clip_specs,
                    final_specs, total_dur, loop_i, otherVars >>

----------------------------------------------------------------------------
(* Output 3: VideoCreatorPro.create_youtube_mix *)

MIX_TARGET_DEFAULT == 60000     \* settings.get("targetDuration", 60.0)
MIX_TARGET_CAP == 120000        \* min(..., 120.0)
CLIP_MIN == 1500                \* clip_min
CLIP_MAX == 5000                \* clip_max
AVOID_PERCENT == 15             \* avoid_percent = 0.15
MIN_SOURCE == 20000             \* `duration < 20`
MIN_SAFE_ZONE == 10000          \* `end_safe - start_safe < 10`
DRAW_MIN == 3                   \* random.randint(3, 6)
DRAW_MAX == 6

\* a source video: on disk or not, and the duration ffprobe reports
\* (0: _get_duration returned None)
Video(exists, duration) == [exists |-> exists, duration |-> duration]

VideoLists == { << >>,
                << Video(FALSE, 0) >>,
                << Video(TRUE, 0) >>,
                << Video(TRUE, 12000) >>,
                << Video(TRUE, 20000) >>,
                << Video(FALSE, 0), Video(TRUE, 30000) >> }

RECURSIVE ExistingVideos(_)
\* videos = [v for v in videos if os.path.exists(v)]
ExistingVideos(vs) ==
    IF vs = << >> THEN << >>
    ELSE (IF Head(vs).exists THEN << Head(vs) >> ELSE << >>) \o ExistingVideos(Tail(vs))

\* target_duration = min(float(self.settings.get("targetDuration", 60.0)), 120.0)
MixTargetDuration(st) ==
    Min(IF st.hasTarget THEN st.targetDuration ELSE MIX_TARGET_DEFAULT, MIX_TARGET_CAP)

StartSafe(duration) == (duration * AVOID_PERCENT) \div 100
EndSafe(duration) == (duration * (100 - AVOID_PERCENT)) \div 100

\* `if not duration or duration < 20: continue` and
\* `if end_safe - start_safe < 10: continue`
SourceAccepted(duration) ==
    /\ duration # 0 /\ duration >= MIN_SOURCE
    /\ EndSafe(duration) - StartSafe(duration) >= MIN_SAFE_ZONE

\* mutant: the clip's own length is not taken off the end of the safe zone
MaxStartNoDur(end_safe, clip_dur) == end_safe

\* max_start = end_safe - clip_dur
MaxStart(end_safe, clip_dur) == end_safe - clip_dur

\* random.uniform(a, b): the two ends of the range stand for its values
Uniform(a, b) == { a, b }

\* one draw of the inner loop for a source of the given duration: the
\* (video, clip_start, clip_dur) it appends, if any
ClipDraws(vid, duration) ==
    { IF MaxStart(EndSafe(duration), clip_dur) <= StartSafe(duration)
      THEN << >>
      ELSE << [vid |-> vid, start |-> clip_start, dur |-> clip_dur] >> :
        << clip_dur, clip_start >> \in
            UNION { { << cd, cs >> :
                        cs \in Uniform(StartSafe(duration),
                                       MaxStart(EndSafe(duration), cd)) } :
                    cd \in Uniform(CLIP_MIN, CLIP_MAX) } }

RECURSIVE Flatten(_, _)
Flatten(f, n) == IF n = 0 THEN << >> ELSE Flatten(f, n - 1) \o f[n]

\* random.randint(3, 6), as far as the model's bound lets it go
NumClipsChoices == DRAW_MIN..Min(DRAW_MAX, MaxDraw)

\* mutant: the loop never breaks, every candidate is selected
SelectWhole(specs, total, target) == specs

RECURSIVE SelectPrefix(_, _, _)
\* `for spec in clip_specs: if total_dur >= target_duration: break ...`
SelectPrefix(specs, total, target) ==
    IF specs = << >> \/ total >= target THEN << >>
    ELSE << Head(specs) >> \o SelectPrefix(Tail(specs), total + Head(specs).dur, target)

RECURSIVE SumSpecs(_)
SumSpecs(specs) ==
    IF specs = << >> THEN 0 ELSE Head(specs).dur + SumSpecs(Tail(specs))

MixPrepare ==
    /\ fmt = "youtube" /\ pc = "start"
    /\ videos' = ExistingVideos(videos)
    /\ IF videos' = << >>
       THEN /\ Finish("None", [hist EXCEPT !.failed_at = "prepare"])
            /\ UNCHANGED loop_i
       ELSE pc' = "sample" /\ loop_i' = 1 /\ UNCHANGED << result, hist >>
    /\ UNCHANGED << fmt, assets, images, sound_files, settings, seconds_per_image,
                    disk, clip_disk, temp_clips, clip_specs, final_specs,
                    total_dur, otherVars >>

\* one iteration of `for video in videos`: probe it, draw its sub-clips
MixSample ==
    /\ fmt = "youtube" /\ pc = "sample" /\ loop_i <= Len(videos)
    /\ LET duration == videos[loop_i].duration
       IN  IF ~SourceAccepted(duration)
           THEN UNCHANGED clip_specs
           ELSE \E num_clips \in NumClipsChoices :
                  \E draws \in [1..num_clips -> ClipDraws(loop_i, duration)] :
                    clip_specs' = clip_specs \o Flatten(draws, num_clips)
    /\ loop_i' = loop_i + 1
    /\ UNCHANGED << fmt, pc, assets, videos, images, sound_files, settings,
                    seconds_per_image, disk, clip_disk, temp_clips, final_specs,
                    total_dur, result, hist, otherVars >>

\* `if not clip_specs: return None`, random.shuffle(clip_specs), the
\* selection up to target_duration, `if not final_specs: return None`
MixSelect ==
    /\ fmt = "youtube" /\ pc = "sample" /\ loop_i > Len(videos)
    /\ IF clip_specs = << >>
       THEN /\ Finish("None", [hist EXCEPT !.failed_at = "sample"])
            /\ UNCHANGED << clip_specs, final_specs, total_dur, loop_i >>
       ELSE \E perm \in Permutations(DOMAIN clip_specs) :
              LET shuffled == [i \in DOMAIN clip_specs |-> clip_specs[perm[i]]]
                  final == SelectPrefix(shuffled, 0, MixTargetDuration(settings))
              IN  /\ clip_specs' = shuffled
                  /\ final_specs' = final
                  /\ total_dur' = SumSpecs(final)
                  /\ IF final = << >>
                     THEN /\ Finish("None", [hist EXCEPT !.failed_at = "select"])
                          /\ UNCHANGED loop_i
                     ELSE pc' = "extract" /\ loop_i' = 1 /\ UNCHANGED << result, hist >>
    /\ UNCHANGED << fmt, assets, videos, images, sound_files, settings,
                    seconds_per_image, disk, clip_disk, temp_clips, otherVars >>

\* one iteration of `for i, (vid, start, dur) in enumerate(final_specs)`:
\* extract _yt_clip_NNN.mp4, muted and normalised
MixExtract ==
    /\ fmt = "youtube" /\ pc = "extract" /\ loop_i <= Len(final_specs)
    /\ \E o \in EncOutcomes(TRUE) :
         IF o = "raise"
         THEN Raise(hist) /\ UNCHANGED << clip_disk, temp_clips, loop_i >>
         ELSE LET f == EncWrite(o, clip_disk[loop_i], Clip(1, final_specs[loop_i].dur))
              IN  /\ clip_disk' = [clip_disk EXCEPT ![loop_i] = f]
                  /\ temp_clips' = IF ClipKept(o, f)
                                   THEN Append(temp_clips, loop_i) ELSE temp_clips
                  /\ loop_i' = loop_i + 1
                  /\ hist' = Faulted(hist, TRUE, o)
                  /\ UNCHANGED << pc, result >>
    /\ UNCHANGED << fmt, assets, videos, images, sound_files, settings,
                    seconds_per_image, disk, clip_specs, final_specs, total_dur, otherVars >>

\* `if not temp_clips: return None`, the concat manifest, the concat, the
\* cleanup of the clips, `if result.returncode != 0: return None`
MixConcatReturn(o) == ReturnCodeZero(o)

MixConcat ==
    /\ fmt = "youtube" /\ pc = "extract" /\ loop_i > Len(final_specs)
    /\ IF temp_clips = << >>
       THEN /\ Finish("None", [hist EXCEPT !.failed_at = "normalize"])
            /\ UNCHANGED << disk, clip_disk, temp_clips >>
       ELSE \E ow \in FsOutcomes, o \in EncOutcomes(ClipsReadable(clip_disk, temp_clips)) :
              IF ow = "raise"
              THEN Raise(hist) /\ UNCHANGED << disk, clip_disk, temp_clips >>
              ELSE IF o = "raise"
              THEN /\ Raise(hist)
                   /\ disk' = [disk EXCEPT ![TEMP_YT_CONCAT] = ManifestFile]
                   /\ UNCHANGED << clip_disk, temp_clips >>
              ELSE LET f == EncWrite(o, disk[TEMP_YT],
                                     Clip(Len(temp_clips), SumDur(clip_disk, temp_clips)))
                       h == Faulted(hist, ClipsReadable(clip_disk, temp_clips), o)
                   IN  /\ disk' = [disk EXCEPT ![TEMP_YT] = f,
                                               ![TEMP_YT_CONCAT] = NoFile]
                       /\ clip_disk' = DeleteClips(clip_disk, temp_clips)
                       /\ UNCHANGED temp_clips
                       /\ IF MixConcatReturn(o)
                          THEN pc' = "y_audio" /\ hist' = h /\ UNCHANGED result
                          ELSE Finish("None", [h EXCEPT !.failed_at = "compose"])
    /\ UNCHANGED << fmt, assets, videos, images, sound_files, settings,
                    seconds_per_image, clip_specs, final_specs, total_dur,
                    loop_i, otherVars >>

\* avg_clip = total_dur / len(final_specs)
AvgClip(total, specs) == total \div Len(specs)

\* "# Add SFX": straight into output_path, or move the video-only track there
MixAudio ==
    /\ fmt = "youtube" /\ pc = "y_audio"
    /\ LET v == disk[TEMP_YT]
           h0 == [hist EXCEPT !.composite = v]
       IN  IF sound_files # << >>
           THEN \E om \in MergeOutcomes(v), oc \in FsOutcomes :
                  LET r == AddSfx(disk, sound_files, TEMP_YT, OUTPUT,
                                  Len(final_specs), AvgClip(total_dur, final_specs),
                                  om, oc)
                      h == [h0 EXCEPT !.sfx = r.sfx, !.stingers = r.stingers, !.merge = r.merge,
                                      !.fault = @ \/ r.raised
                                                  \/ (r.sfx # "copy" /\ om # "ok")]
                  IN  IF r.raised
                      THEN disk' = r.disk /\ Raise(h)
                      ELSE /\ disk' = SafeDelete(r.disk, TEMP_YT)
                           /\ pc' = "validate" /\ hist' = h /\ UNCHANGED result
           ELSE \E oc \in FsOutcomes :
                  /\ disk' = MoveFile(disk, TEMP_YT, OUTPUT, oc)
                  /\ IF CopyRaises(disk, TEMP_YT, oc)
                     THEN Raise([h0 EXCEPT !.sfx = "move"])
                     ELSE /\ pc' = "validate"
                          /\ hist' = [h0 EXCEPT !.sfx = "move"]
                          /\ UNCHANGED result
    /\ UNCHANGED << fmt, assets, videos, images, sound_files, settings,
                    seconds_per_image, clip_disk, temp_clips, clip_specs,
                    final_specs, total_dur, loop_i, otherVars >>

----------------------------------------------------------------------------
(* One render call *)

NoJob == [pc |-> "idle"]
NoPlan == [pc |-> "idle"]
NoMotion == [pc |-> "idle"]
NoValidation == [pc |-> "idle"]
NoCall == [pc |-> "idle"]
NoRenders == [pc |-> "idle"]
NoRun == [pc |-> "idle"]
NoSting == [pc |-> "idle"]
NoUi == [pc |-> "idle"]
NoRetry == [pc |-> "idle"]

\* no job step and no timeline is under way
OthersIdle == job = NoJob /\ plan = NoPlan /\ motion = NoMotion /\ validation = NoValidation /\ call = NoCall /\ renders = NoRenders /\ run = NoRun /\ sting = NoSting /\ ui = NoUi /\ retry = NoRetry

InitCommon ==
    /\ pc = "start"
    /\ images = << >>
    /\ seconds_per_image = 0
    /\ clip_disk = NoClips
    /\ temp_clips = << >>
    /\ clip_specs = << >>
    /\ final_specs = << >>
    /\ total_dur = 0
    /\ loop_i = 0
    /\ result = "pending"
    /\ hist = NoHist
    /\ OthersIdle
    /\ sound_files \in SoundPools

Init ==
    /\ InitCommon
    /\ \/ /\ fmt = "slideshow"
          /\ assets \in AssetLists
          /\ videos = << >>
          /\ settings \in { SettingsOf(t, "none") : t \in TargetChoices }
          /\ disk \in StaleDisks
       \/ /\ fmt = "portrait"
          /\ assets \in AssetLists
          /\ videos = << >>
          /\ settings \in { SettingsOf(0, o) : o \in { "none", "ok" } }
          /\ disk = EmptyDisk
       \/ /\ fmt = "youtube"
          /\ assets = << >>
          /\ videos \in VideoLists
          /\ settings \in { SettingsOf(t, "none") : t \in TargetChoices }
          /\ disk = EmptyDisk

Next ==
    \/ SlidePrepare \/ SlideSingleImage \/ SlideSinglePass \/ SlideFallback
    \/ SlideAudio \/ SlideCleanup
    \/ PortraitPrepare \/ PortraitClip \/ PortraitConcat \/ PortraitAudio
    \/ PortraitOverlay
    \/ MixPrepare \/ MixSample \/ MixSelect \/ MixExtract \/ MixConcat \/ MixAudio
    \/ Validate

Spec == Init /\ [][Next]_vars

----------------------------------------------------------------------------
(* Properties of one render call *)

Done == pc = "done"

Playable(f) == f.there /\ f.big /\ f.video

NoOfAssets(kind) == Cardinality({ i \in DOMAIN assets : assets[i] = kind })

\* the call ran without any fault of the environment and on a clean directory
CleanRun == ~hist.fault /\ ~disk[OUTPUT].stale

\* C1: a render call returns the output path only if the Output Validator
\* accepted the file at that path, and returns None whenever the validator
\* rejected it, even though the file exists
C1_ReturnedPathIsValidated ==
    Done =>
        /\ result = "path" => hist.probe = "accepted" /\ Playable(disk[OUTPUT])
        /\ hist.probe = "rejected" => result = "None"

C1_Witness ==
    Done /\ hist.probe = "rejected" /\ disk[OUTPUT].there /\ result = "None"

\* C2: with N assets of which k are missing or corrupt and no other fault,
\* an image render succeeds with exactly the N-k valid units when N-k >= 1,
\* and fails when N-k = 0
C2_PartialFailureTolerance ==
    (Done /\ fmt \in { "slideshow", "portrait" } /\ CleanRun) =>
        IF NoOfAssets("ok") >= 1
        THEN result = "path" /\ disk[OUTPUT].units = NoOfAssets("ok")
        ELSE result = "None"

\* C4: a render call ends with a path or None and never lets an exception out
C4_NeverRaises ==
    /\ result \in { "pending", "path", "None" }
    /\ Done => result \in { "path", "None" }

C4_Witness == Done /\ hist.caught /\ result = "None"

\* C5: when the mixer has attached its track to a composite of N units it has
\* placed exactly max(0, N-1) stingers, each strictly inside (0, duration of
\* the composite)
C5_StingerCount ==
    (Done /\ CleanRun /\ hist.sfx = "merged") =>
        /\ Len(hist.stingers) = Max(0, hist.composite.units - 1)
        /\ \A k \in DOMAIN hist.stingers :
               0 < hist.stingers[k] /\ hist.stingers[k] < hist.composite.dur

\* C6: when a render call has returned, none of the intermediate files it
\* wrote is left in the output directory
C6_NoTempFilesLeft ==
    Done =>
        /\ \A f \in TempNames : ~(disk[f].there /\ ~disk[f].stale)
        /\ \A i \in ClipIndices : ~clip_disk[i].there

\* C7: for two or more images a rejected single pass is retried exactly once
\* with the hard-cut fallback on the same images in the same order, and the
\* compose stage fails only when the fallback fails too
C7_FallbackOnce ==
    (fmt = "slideshow" /\ pc \notin { "start", "compose" }) =>
        /\ hist.fallback_calls <= 1
        /\ (hist.single_pass = "false" /\ pc # "fallback")
               => hist.fallback_calls = 1 /\ hist.fallback_images = images
        /\ hist.single_pass # "false" => hist.fallback_calls = 0
        /\ hist.failed_at = "compose"
               => hist.single_pass = "false" /\ hist.fallback_ret = "false"
        /\ hist.fallback_ret = "true" => hist.failed_at # "compose"

C7_Witness ==
    /\ Done /\ fmt = "slideshow" /\ Len(images) >= 2
    /\ hist.single_pass = "false" /\ hist.fallback_ret = "true"
    /\ result = "path" /\ disk[OUTPUT].units = Len(images)

\* the overlay stage of the portrait render left the track as it was
NoOverlay == fmt = "portrait" => settings.faceOverlay = "none"

C9_EmptySoundPool ==
    (sound_files = << >>) =>
        /\ hist.stingers = << >>
        /\ hist.merge = "none"
        /\ (Done /\ hist.composite.there /\ ~hist.caught) =>
               /\ NoOverlay => disk[OUTPUT] = hist.composite
               /\ hist.probe # "none"
               /\ result = "path" <=> hist.probe = "accepted"

C9_Witness ==
    /\ Done /\ sound_files = << >> /\ hist.sfx = "move"
    /\ result = "path" /\ disk[OUTPUT] = hist.composite
    /\ disk[OUTPUT].sting = << >>

\* a sub-clip lies inside the safe zone [x*D, (1-x)*D] of its source
InSafeZone(spec) ==
    LET D == videos[spec.vid].duration
    IN  /\ AVOID_PERCENT * D <= 100 * spec.start
        /\ 100 * (spec.start + spec.dur) <= (100 - AVOID_PERCENT) * D

\* C10: every sampled sub-clip of an accepted source starts and ends inside
\* the safe zone of that source
C10_SafeZone ==
    (fmt = "youtube" /\ pc # "start") =>
        /\ \A k \in DOMAIN clip_specs : InSafeZone(clip_specs[k])
        /\ \A k \in DOMAIN final_specs : InSafeZone(final_specs[k])

C10_Witness ==
    /\ fmt = "youtube" /\ final_specs # << >>
    /\ \E k \in DOMAIN final_specs :
         LET spec == final_specs[k]
         IN  /\ spec.dur = CLIP_MAX
             /\ 100 * (spec.start + spec.dur)
                    = (100 - AVOID_PERCENT) * videos[spec.vid].duration

----------------------------------------------------------------------------
(* JobRunner._create_outputs: the three renders of one job, one after another *)

JobFormats == { "slideshow", "portrait", "youtubeMix" }

\* what a render call hands back to the job runner: a path, None, or an
\* exception raised before its try block (a setting of the wrong type)
RenderResults == { "path", "None", "raised" }

\* the wall clock against the limits: "ok", "render_over" (step 5 runs longer
\* than MAX_RENDER_TIME), "job_over" (the job runs longer than MAX_JOB_TIME)
ClockFrom(c) ==
    CASE c = "ok" -> { "ok", "render_over", "job_over" }
      [] c = "render_over" -> { "render_over", "job_over" }
      [] OTHER -> { "job_over" }

\* _check_time_limit("render", MAX_RENDER_TIME): True, False, or it raises
\* JobTimeoutError
CheckTimeLimit(c) ==
    CASE c = "job_over" -> "raise"
      [] c = "render_over" -> "False"
      [] OTHER -> "True"

\* mutant: the exception of a render is not caught and leaves _create_outputs
RenderFailureAborts(next) == "aborted"

\* `except Exception as e: self._log_error(...)` around each render: the
\* step goes on with the next output
AfterRenderFailure(next) == next

\* no render call is under way
RenderIdle ==
    /\ fmt = "none" /\ pc = "idle"
    /\ assets = << >> /\ videos = << >> /\ images = << >>
    /\ sound_files = << >>
    /\ settings = SettingsOf(0, "none")
    /\ seconds_per_image = 0
    /\ disk = EmptyDisk /\ clip_disk = NoClips
    /\ temp_clips = << >> /\ clip_specs = << >> /\ final_specs = << >>
    /\ total_dur = 0 /\ loop_i = 0
    /\ result = "pending" /\ hist = NoHist

InitJob ==
    /\ RenderIdle
    /\ retry = NoRetry
    /\ ui = NoUi
    /\ sting = NoSting
    /\ run = NoRun
    /\ renders = NoRenders
    /\ call = NoCall
    /\ validation = NoValidation
    /\ motion = NoMotion
    /\ plan = NoPlan
    /\ \E imgs \in AssetLists, vids \in 0..1, c \in { "ok", "job_over" } :
         job = [ pc |-> "start",
                 images |-> imgs,               \* job["images"]
                 youtube_vids |-> vids,         \* downloaded youtube sources on disk
                 clock |-> c,
                 check |-> [f \in JobFormats |-> "none"],
                 res |-> [f \in JobFormats |-> "unattempted"],
                 outputs |-> { },               \* local `outputs`
                 has_outputs |-> FALSE,         \* job["outputs"] was assigned
                 saved |-> { } ]                \* job["outputs"]

\* one `try:` block of _create_outputs for format f, leading to `next`
JobRender(f, next) ==
    LET c == CheckTimeLimit(job.clock)
    IN  IF c = "raise"
        THEN job' = [job EXCEPT !.check[f] = c, !.pc = AfterRenderFailure(next)]
        ELSE IF c = "False"
        THEN job' = [job EXCEPT !.check[f] = c, !.pc = next]
        ELSE \E r \in RenderResults, c2 \in ClockFrom(job.clock) :
               job' = [job EXCEPT
                          !.check[f] = c,
                          !.res[f] = r,
                          !.clock = c2,
                          !.outputs = IF r = "path" THEN @ \cup { f } ELSE @,
                          !.pc = IF r = "raised" THEN AfterRenderFailure(next)
                                 ELSE next]

\* the head of _create_outputs: `if not images: ... return`
JobStart ==
    /\ job.pc = "start"
    /\ LET imgs == ExistingOnly(job.images)
       IN  job' = [job EXCEPT !.images = imgs,
                              !.pc = IF imgs = << >> THEN "done" ELSE "landscape"]
    /\ UNCHANGED jobFrame

\* "# output 1: landscape b-roll"
JobLandscape ==
    /\ job.pc = "landscape"
    /\ JobRender("slideshow", "portrait")
    /\ UNCHANGED jobFrame

\* "# output 2: portrait/instagram"
JobPortrait ==
    /\ job.pc = "portrait"
    /\ JobRender("portrait", "youtube")
    /\ UNCHANGED jobFrame

\* "# output 3: youtube mix": the time check stands outside the try block
JobYoutube ==
    /\ job.pc = "youtube"
    /\ IF job.youtube_vids = 0
       THEN job' = [job EXCEPT !.pc = "save"]
       ELSE LET c == CheckTimeLimit(job.clock)
            IN  IF c = "raise"
                THEN job' = [job EXCEPT !.check["youtubeMix"] = c, !.pc = "aborted"]
                ELSE JobRender("youtubeMix", "save")
    /\ UNCHANGED jobFrame

\* self.job["outputs"] = outputs; self._save_job()
JobSave ==
    /\ job.pc = "save"
    /\ job' = [job EXCEPT !.saved = job.outputs, !.has_outputs = TRUE, !.pc = "done"]
    /\ UNCHANGED jobFrame

NextJob == JobStart \/ JobLandscape \/ JobPortrait \/ JobYoutube \/ JobSave

SpecJob == InitJob /\ [][NextJob]_vars

\* C3: the three renders are attempted one after another; a render that
\* returns None or raises neither stops the later formats from being reached
\* nor aborts the step (only the job time cap does), and job["outputs"] ends
\* as exactly the formats whose render returned a path
C3_FormatsIndependent ==
    /\ job.pc = "aborted" => job.check["youtubeMix"] = "raise"
    /\ (job.pc \in { "save", "done" } /\ job.images # << >>) =>
           /\ job.check["slideshow"] # "none"
           /\ job.check["portrait"] # "none"
           /\ job.youtube_vids > 0 => job.check["youtubeMix"] # "none"
           /\ \A f \in JobFormats :
                  job.check[f] = "True" => job.res[f] # "unattempted"
    /\ (job.pc = "done" /\ job.images # << >>) =>
           /\ job.has_outputs
           /\ job.saved = { f \in JobFormats : job.res[f] = "path" }

C3_Witness ==
    /\ job.pc = "done"
    /\ job.res["slideshow"] = "raised"
    /\ job.res["portrait"] = "None"
    /\ job.res["youtubeMix"] = "path"
    /\ job.saved = { "youtubeMix" }

----------------------------------------------------------------------------
(* The timeline of one render: per-unit duration, the joins of the track,  *)
(* and the stinger offsets, for as many images as a real job carries       *)

MaxPlanImages == 8      \* longest `images` list of a timeline
MaxMixClips == 3        \* most sub-clips of a montage timeline

\* targetDuration handed to the renderer (ms); 0: the key is not set
PlanTargets == { 0, 10000, 32000, 60000 }

RECURSIVE XfadeChainNoOverlap(_, _, _, _)
\* mutant: every further clip moves the offset by its full duration
XfadeChainNoOverlap(i, n, current_offset, duration) ==
    IF i >= n THEN << current_offset >>
    ELSE << current_offset >> \o
         XfadeChainNoOverlap(i + 1, n, current_offset + duration, duration)

RECURSIVE XfadeChain(_, _, _, _)
\* "# Subsequent xfades": i is the loop index, current_offset the offset of
\* the xfade that was appended last
XfadeChain(i, n, current_offset, duration) ==
    IF i >= n THEN << current_offset >>
    ELSE << current_offset >> \o
         XfadeChain(i + 1, n, current_offset + (duration - TRANSITION_DUR), duration)

\* the offset= argument of every xfade filter of the chain, in order
XfadeOffsets(n, duration) ==
    IF n < 2 THEN << >>
    ELSE XfadeChain(2, n, duration - TRANSITION_DUR, duration)

RECURSIVE RunningSum(_, _, _)
\* end time of every clip of a hard-cut track but the last
RunningSum(durs, k, acc) ==
    IF k >= Len(durs) THEN << >>
    ELSE << acc + durs[k] >> \o RunningSum(durs, k + 1, acc + durs[k])

RECURSIVE SumSeq(_)
SumSeq(s) == IF s = << >> THEN 0 ELSE Head(s) + SumSeq(Tail(s))

\* the clip durations a montage can be cut from
MixDurations ==
    UNION { [1..m -> { CLIP_MIN, CLIP_MAX }] : m \in 1..MaxMixClips }

\* a timeline before its first step: `given` paths are handed in, `missing`
\* of them are not on disk
NewPlan(f, given, missing, target, sounds, durs) ==
    [ pc |-> "prepare", fmt |-> f, given |-> given, missing |-> missing,
      target |-> target, sounds |-> sounds, durs |-> durs,
      n |-> 0,                  \* len(images) after the os.path.exists filter
      spi |-> 0,                \* seconds_per_image (ms)
      route |-> "none",         \* which composition built the track
      offsets |-> << >>,        \* offset= of every xfade, in order
      joins |-> << >>,          \* time at which every visual join is over
      track |-> 0,              \* duration of the composite track
      delays |-> << >>,         \* `delays` of the stinger mixer
      probe |-> "none",         \* what ffprobe did in the validation gate
      result |-> "pending" ]

InitPlan ==
    /\ RenderIdle
    /\ retry = NoRetry
    /\ ui = NoUi
    /\ sting = NoSting
    /\ run = NoRun
    /\ renders = NoRenders
    /\ call = NoCall
    /\ validation = NoValidation
    /\ motion = NoMotion
    /\ job = NoJob
    /\ \/ \E f \in { "slideshow", "portrait" }, g \in 1..MaxPlanImages,
             m \in 0..1, t \in PlanTargets, snd \in BOOLEAN :
            plan = NewPlan(f, g, m, t, snd, << >>)
       \/ \E durs \in MixDurations, snd \in BOOLEAN :
            plan = NewPlan("youtube", 0, 0, 0, snd, durs)

\* the head of create_slideshow / create_portrait: the exists filter and
\* seconds_per_image; create_youtube_mix: final_specs is chosen
PlanPrepare ==
    /\ plan.pc = "prepare"
    /\ LET n == IF plan.fmt = "youtube" THEN Len(plan.durs)
                ELSE plan.given - plan.missing
           st == SettingsOf(plan.target, "none")
       IN  IF n = 0
           THEN plan' = [plan EXCEPT !.pc = "done", !.result = "None"]
           ELSE plan' = [plan EXCEPT
                    !.n = n,
                    !.spi = CASE plan.fmt = "slideshow" -> SlideshowSecondsPerImage(st, n)
                              [] plan.fmt = "portrait" -> PortraitSecondsPerImage(st, n)
                              [] OTHER -> 0,
                    !.pc = "compose"]
    /\ UNCHANGED planFrame

\* the track: single image, cross-dissolve chain, hard-cut fallback,
\* portrait clips joined by the concat demuxer, montage clips
PlanCompose ==
    /\ plan.pc = "compose"
    /\ \/ /\ plan.fmt = "slideshow" /\ plan.n = 1
          /\ plan' = [plan EXCEPT !.route = "single_image", !.track = plan.spi,
                                  !.pc = "audio"]
       \/ /\ plan.fmt = "slideshow" /\ plan.n >= 2
          /\ \E success \in BOOLEAN :
               IF ~RetriesWithFallback(success)
               THEN LET offs == XfadeOffsets(plan.n, plan.spi)
                    IN  plan' = [plan EXCEPT
                            !.route = "single_pass",
                            !.offsets = offs,
                            !.joins = [k \in DOMAIN offs |-> offs[k] + TRANSITION_DUR],
                            !.track = XfadeDuration(plan.n, plan.spi),
                            !.pc = "audio"]
               ELSE plan' = [plan EXCEPT
                            !.route = "fallback",
                            !.joins = RunningSum([k \in 1..plan.n |-> plan.spi], 1, 0),
                            !.track = plan.n * plan.spi,
                            !.pc = "audio"]
       \/ /\ plan.fmt = "portrait"
          /\ plan' = [plan EXCEPT
                            !.route = "clips",
                            !.joins = RunningSum([k \in 1..plan.n |-> plan.spi], 1, 0),
                            !.track = plan.n * plan.spi,
                            !.pc = "audio"]
       \/ /\ plan.fmt = "youtube"
          /\ plan' = [plan EXCEPT
                            !.route = "mix",
                            !.joins = RunningSum(plan.durs, 1, 0),
                            !.track = SumSeq(plan.durs),
                            !.pc = "audio"]
    /\ UNCHANGED planFrame

\* `if self.sound_files:` _add_sfx_single_pass(..., num_clips, clip_duration, ...)
PlanAudio ==
    /\ plan.pc = "audio"
    /\ LET clip_duration == IF plan.fmt = "youtube"
                            THEN AvgClip(SumSeq(plan.durs), plan.durs)
                            ELSE plan.spi
       IN  plan' = [plan EXCEPT
                        !.delays = IF plan.sounds
                                   THEN StingerDelays(plan.n, clip_duration)
                                   ELSE << >>,
                        !.pc = "validate"]
    /\ UNCHANGED planFrame

\* the validation gate that ends the call
PlanValidate ==
    /\ plan.pc = "validate"
    /\ \E probe \in ProbeOutcomes :
         plan' = [plan EXCEPT
                      !.result = IF RenderAccepts(Clip(plan.n, plan.track), probe)
                                 THEN "path" ELSE "None",
                      !.probe = probe,
                      !.pc = "done"]
    /\ UNCHANGED planFrame

NextPlan == PlanPrepare \/ PlanCompose \/ PlanAudio \/ PlanValidate

SpecPlan == InitPlan /\ [][NextPlan]_vars

----------------------------------------------------------------------------
(* Properties of the timeline *)

PlanDone == plan.pc = "done"

\* C11: a landscape render of 8 images that are all on disk, with a target
\* duration of 32 s and sounds available, runs at 4.0 s per image, joins its
\* 8 clips at exactly 7 places, places exactly 7 stingers, all of them inside
\* the track, and returns the path once the validator has accepted the file
C11_HappyPath ==
    (/\ plan.fmt = "slideshow" /\ plan.given = 8 /\ plan.missing = 0
     /\ plan.target = 32000 /\ plan.sounds /\ PlanDone) =>
        /\ plan.spi = 4000
        /\ plan.n = 8
        /\ Len(plan.joins) = 7
        /\ plan.route = "single_pass" => Len(plan.offsets) = 7
        /\ Len(plan.delays) = 7
        /\ \A k \in DOMAIN plan.delays :
               0 < plan.delays[k] /\ plan.delays[k] < plan.track
        /\ plan.probe = "ok" <=> plan.result = "path"

C11_Witness ==
    /\ PlanDone /\ plan.fmt = "slideshow" /\ plan.given = 8 /\ plan.missing = 0
    /\ plan.target = 32000 /\ plan.sounds /\ plan.route = "single_pass"
    /\ plan.result = "path" /\ Len(plan.delays) = 7

\* C14: in both image renders, once the head of the call has run, the
\* per-unit duration is target_duration / unit_count clamped into the fixed
\* range when a target duration is set, with unit_count the number of assets
\* that are on disk, and the configured seconds-per-image when none is set
C14_PerUnitDuration ==
    (plan.fmt \in { "slideshow", "portrait" } /\ plan.n > 0) =>
        IF plan.target > 0
        THEN /\ plan.n = plan.given - plan.missing
             /\ CLAMP_LOW <= plan.spi /\ plan.spi <= CLAMP_HIGH
             /\ plan.target >= CLAMP_HIGH * plan.n => plan.spi = CLAMP_HIGH
             /\ plan.target <= CLAMP_LOW * plan.n => plan.spi = CLAMP_LOW
             /\ (CLAMP_LOW * plan.n < plan.target /\ plan.target < CLAMP_HIGH * plan.n)
                    => /\ plan.spi * plan.n <= plan.target
                       /\ plan.target < (plan.spi + 1) * plan.n
        ELSE plan.spi = SettingsOf(plan.target, "none").secondsPerImage

\* C19 as stated: the k-th transition of the cross-dissolve chain starts at
\* k*d - t
C19_OffsetPlainSum ==
    plan.route = "single_pass" =>
        \A k \in DOMAIN plan.offsets :
            plan.offsets[k] = k * plan.spi - TRANSITION_DUR

\* C19: there are n-1 transitions, and the k-th one starts one transition
\* length before the end of the track composed of the first k clips, whose
\* k-1 earlier overlaps have each shortened it by t: k*d - (k-1)*t - t,
\* that is k*(d - t); the last one ends with the track less the last clip's
\* remainder
C19_OffsetOnComposedTrack ==
    plan.route = "single_pass" =>
        /\ Len(plan.offsets) = plan.n - 1
        /\ \A k \in DOMAIN plan.offsets :
               /\ plan.offsets[k] = XfadeDuration(k, plan.spi) - TRANSITION_DUR
               /\ plan.offsets[k] = k * (plan.spi - TRANSITION_DUR)
        /\ plan.offsets[plan.n - 1] + plan.spi = plan.track

C19_Witness ==
    /\ plan.route = "single_pass" /\ plan.n >= 3
    /\ plan.offsets[2] = 2 * plan.spi - 2 * TRANSITION_DUR

\* C20: every stinger is placed before the visual join it belongs to (taken
\* at its latest, when the cross-dissolve is over or the cut is made), and by
\* no more than the fixed lead, on the cross-dissolved track, the hard-cut
\* tracks and the montage
C20_StingerLeadsJoin ==
    plan.pc \in { "validate", "done" } =>
        \A k \in DOMAIN plan.delays :
            /\ k \in DOMAIN plan.joins
            /\ plan.delays[k] < plan.joins[k]
            /\ plan.joins[k] - plan.delays[k] <= STINGER_LEAD

----------------------------------------------------------------------------
(* Further properties of one render call *)

\* C12: a render of exactly one valid image places no stinger and runs no
\* merge even when sounds are available, and when it returns a path the
\* validator has accepted a composite that is the one encoded clip, which is
\* what lies at the output path
C12_SingleAsset ==
    (Done /\ fmt \in { "slideshow", "portrait" } /\ assets = << "ok" >>) =>
        /\ hist.stingers = << >>
        /\ hist.merge = "none"
        /\ result = "path" =>
               /\ hist.probe = "accepted"
               /\ hist.composite = Clip(1, seconds_per_image)
               /\ NoOverlay => disk[OUTPUT] = Clip(1, seconds_per_image)

----------------------------------------------------------------------------
(* The motion effect of every clip: settings["motionLevel"] and zoompan *)

MaxMotionImages == 3    \* longest `images` list of a track

\* the zoompan expression z=..., as zoom factor (per mille) at the first and
\* at the last frame of the clip
Zoom(first, last) == [first |-> first, last |-> last]

\* zoom = "1", and every filter chain without zoompan
ZoomStatic == Zoom(1000, 1000)

\* the zoompan of _create_single_image_video: z='1+0.05*on/{total_frames}'
ZoomSingleImage == Zoom(1000, 1050)

\* the zoom of one clip of _build_slideshow_single_pass: "off" is static,
\* "slow" draws zoom_in (1.5%) or static, anything else draws zoom_in (3%),
\* zoom_out or static
ZoomChoices(motion_level) ==
    CASE motion_level = "off" -> { ZoomStatic }
      [] motion_level = "slow" -> { Zoom(1000, 1015), ZoomStatic }
      [] OTHER -> { Zoom(1000, 1030), Zoom(1030, 1000), ZoomStatic }

MotionLevels == { "off", "slow", "medium" }

InitMotion ==
    /\ RenderIdle
    /\ retry = NoRetry
    /\ ui = NoUi
    /\ sting = NoSting
    /\ run = NoRun
    /\ renders = NoRenders
    /\ call = NoCall
    /\ validation = NoValidation
    /\ job = NoJob
    /\ plan = NoPlan
    /\ \E f \in { "slideshow", "portrait" }, n \in 1..MaxMotionImages,
          lvl \in MotionLevels :
         motion = [ pc |-> "start", fmt |-> f, n |-> n, level |-> lvl,
                    route |-> "none",
                    zooms |-> << >> ]     \* zoom of every clip of the track

motionFrame == << renderVars, job, plan, validation, call, renders, run, sting, ui, retry >>

\* create_slideshow picks the builder by len(images); create_portrait has one
MotionRoute ==
    /\ motion.pc = "start"
    /\ motion' = [motion EXCEPT
                     !.route = CASE motion.fmt = "portrait" -> "clips"
                                 [] motion.n = 1 -> "single_image"
                                 [] OTHER -> "single_pass",
                     !.pc = "build"]
    /\ UNCHANGED motionFrame

\* _create_single_image_video: one clip, its zoompan does not read the setting
MotionSingleImage ==
    /\ motion.pc = "build" /\ motion.route = "single_image"
    /\ motion' = [motion EXCEPT !.zooms = << ZoomSingleImage >>, !.pc = "done"]
    /\ UNCHANGED motionFrame

\* one turn of `for i in range(n)` of _build_slideshow_single_pass
MotionSinglePassClip ==
    /\ motion.pc = "build" /\ motion.route = "single_pass"
    /\ Len(motion.zooms) < motion.n
    /\ \E zoom \in ZoomChoices(motion.level) :
         motion' = [motion EXCEPT !.zooms = Append(@, zoom)]
    /\ UNCHANGED motionFrame

\* the single pass runs: accepted, or rejected and rebuilt by
\* _build_slideshow_fallback, whose filter chains have no zoompan
MotionSinglePassRun ==
    /\ motion.pc = "build" /\ motion.route = "single_pass"
    /\ Len(motion.zooms) = motion.n
    /\ \E success \in BOOLEAN :
         IF RetriesWithFallback(success)
         THEN motion' = [motion EXCEPT !.route = "fallback",
                                       !.zooms = [k \in 1..motion.n |-> ZoomStatic],
                                       !.pc = "done"]
         ELSE motion' = [motion EXCEPT !.pc = "done"]
    /\ UNCHANGED motionFrame

\* _build_portrait_single_pass: scale and pad only, one clip per image
MotionPortraitClips ==
    /\ motion.pc = "build" /\ motion.route = "clips"
    /\ motion' = [motion EXCEPT !.zooms = [k \in 1..motion.n |-> ZoomStatic],
                                !.pc = "done"]
    /\ UNCHANGED motionFrame

NextMotion ==
    \/ MotionRoute \/ MotionSingleImage \/ MotionSinglePassClip
    \/ MotionSinglePassRun \/ MotionPortraitClips

SpecMotion == InitMotion /\ [][NextMotion]_vars

\* C13: with motionLevel "off" every clip of every image render is static:
\* its zoom factor is 1 from the first frame to the last
C13_AllStatic ==
    (motion.pc = "done" /\ motion.level = "off") =>
        /\ Len(motion.zooms) = motion.n
        /\ \A k \in DOMAIN motion.zooms : motion.zooms[k] = ZoomStatic

----------------------------------------------------------------------------
(* The output validators, check by check:                                  *)
(* VideoCreatorPro._validate_output and JobRunner._validate_outputs        *)

SIZE_FLOOR == 10000         \* os.path.getsize(path) < 10000

\* a file as the validators and a player see it
MediaFile(exists, size, codec, dims, decodes) ==
    [ exists |-> exists, size |-> size,
      codec |-> codec,          \* codec of the first video stream, or "none"
      dims |-> dims,            \* "full" | "degenerate" (1x1) | "none"
      decodes |-> decodes ]     \* its first seconds decode without error

FileSizes == { 0, SIZE_FLOOR - 1, SIZE_FLOOR, 5 * SIZE_FLOOR }

\* the files a render can leave at the output path
MediaFiles ==
    { MediaFile(FALSE, 0, "none", "none", FALSE) }
    \cup { MediaFile(TRUE, sz, "none", "none", FALSE) : sz \in FileSizes }
    \cup { MediaFile(TRUE, sz, "h264", d, dec) :
             sz \in FileSizes, d \in { "full", "degenerate" }, dec \in BOOLEAN }

validationFrame == << renderVars, job, plan, motion, call, renders, run, sting, ui, retry >>

InitValidation ==
    /\ RenderIdle
    /\ retry = NoRetry
    /\ ui = NoUi
    /\ sting = NoSting
    /\ run = NoRun
    /\ renders = NoRenders
    /\ call = NoCall
    /\ job = NoJob /\ plan = NoPlan /\ motion = NoMotion
    /\ \E who \in { "render", "job" }, f \in MediaFiles :
         validation = [ pc |-> "exists", who |-> who, file |-> f,
                        probe |-> "none",     \* what ffprobe did
                        checks |-> << >>,     \* the checks evaluated, in order
                        verdict |-> "none" ]

Verdict(v, c, ok, next) ==
    [v EXCEPT !.checks = Append(@, c),
              !.verdict = IF ok THEN @ ELSE "False",
              !.pc = IF ok THEN next ELSE "done"]

\* `if not os.path.exists(path): return False`
CheckExists ==
    /\ validation.pc = "exists"
    /\ validation' = Verdict(validation, "exists", validation.file.exists, "size")
    /\ UNCHANGED validationFrame

\* `if os.path.getsize(path) < 10000: return False`
CheckSize ==
    /\ validation.pc = "size"
    /\ validation' = Verdict(validation, "size",
                             ~(validation.file.size < SIZE_FLOOR), "probe")
    /\ UNCHANGED validationFrame

\* ffprobe -select_streams v:0 -show_entries stream=codec_name inside try:
\* the verdict is `returncode == 0 and stdout.strip()`, False on any exception
CheckProbe ==
    /\ validation.pc = "probe"
    /\ \E o \in ProbeOutcomes :
         LET f == validation.file
             asFile == [NoFile EXCEPT !.there = f.exists,
                                      !.big = ~(f.size < SIZE_FLOOR),
                                      !.video = f.codec # "none"]
         IN  validation' = [validation EXCEPT
                 !.probe = o,
                 !.checks = Append(@, "probe"),
                 !.verdict = IF _validate_output(asFile, o) THEN "True" ELSE "False",
                 !.pc = "done"]
    /\ UNCHANGED validationFrame

NextValidation == CheckExists \/ CheckSize \/ CheckProbe

SpecValidation == InitValidation /\ [][NextValidation]_vars

\* C15: a validator answers True only for a file that exists, is larger
\* than the floor, has a video stream with a codec, has frame dimensions above
\* the floor and decodes; it stops at the first failed check, and an
\* exception while probing gives False
C15_FiveChecks ==
    validation.pc = "done" =>
        /\ validation.verdict \in { "True", "False" }
        /\ validation.verdict = "True" =>
               /\ validation.file.exists
               /\ validation.file.size >= SIZE_FLOOR
               /\ validation.file.codec # "none"
               /\ validation.file.dims = "full"
               /\ validation.file.decodes
        /\ ~validation.file.exists => validation.checks = << "exists" >>
        /\ validation.probe = "raise" => validation.verdict = "False"

----------------------------------------------------------------------------
(* The external invocations of a render call: every subprocess.run, what   *)
(* the child process does, and what ends the wait for it                   *)

MaxUnits == 2               \* most clips normalized or extracted by one call

JOB_PROBE_TIMEOUT == 30     \* subprocess.run(..., timeout=30) in _validate_outputs
NO_TIMEOUT == 0             \* subprocess.run called without timeout=

Repeat(x, k) == [i \in 1..k |-> x]

\* the invocations of one call, in order (a "fallback" is dropped when the
\* single pass is accepted)
StagePlans ==
    { << "single_image", "validate" >>,
      << "single_pass", "fallback", "validate" >>,
      << "single_pass", "fallback", "mix", "validate" >> }
    \cup { Repeat("normalize", k) \o tl :
             k \in 1..MaxUnits, tl \in { << "concat", "validate" >>,
                                         << "concat", "mix", "validate" >> } }
    \cup { << "probe_duration" >> \o Repeat("extract", k) \o tl :
             k \in 1..MaxUnits, tl \in { << "concat", "validate" >>,
                                         << "concat", "mix", "validate" >> } }
    \cup { << "job_probe" >> }

\* the timeout= argument of the subprocess.run of a stage
RunTimeout(stage) == IF stage = "job_probe" THEN JOB_PROBE_TIMEOUT ELSE NO_TIMEOUT

InitCall ==
    /\ RenderIdle
    /\ retry = NoRetry
    /\ ui = NoUi
    /\ sting = NoSting
    /\ run = NoRun
    /\ renders = NoRenders
    /\ job = NoJob /\ plan = NoPlan /\ motion = NoMotion
    /\ validation = NoValidation
    /\ \E todo \in StagePlans, alarm \in BOOLEAN :
         call = [ pc |-> "ready", todo |-> todo,
                  alarm |-> alarm,      \* signal.alarm(MAX_JOB_TIME) is armed
                  child |-> "none",     \* "runs": it will exit, "hangs": it never does
                  kept |-> 0,           \* clips kept so far
                  hung |-> FALSE,       \* a child of this call never exited
                  result |-> "pending" ]

callFrame == << renderVars, job, plan, motion, validation, renders, run, sting, ui, retry >>

Returned(c, res) ==
    [c EXCEPT !.pc = "done", !.child = "none", !.todo = << >>, !.result = res]

\* the call goes on behind the invocation that just ended; a concat with no
\* clip kept is not run: `if not temp_clips: return`
GoOn(c, rest, kept) ==
    IF rest # << >> /\ Head(rest) = "concat" /\ kept = 0
    THEN Returned(c, "None")
    ELSE [c EXCEPT !.pc = "ready", !.child = "none", !.todo = rest, !.kept = kept]

\* what the call does with the outcome of the invocation at the head of todo:
\* "ok" (exit 0), "fail" (exit # 0), "raise" (an exception leaves subprocess.run)
AfterInvoke(c, o) ==
    LET stage == Head(c.todo)
        rest == Tail(c.todo)
    IN  CASE stage = "validate" -> Returned(c, IF o = "ok" THEN "path" ELSE "None")
          [] stage = "job_probe" -> Returned(c, IF o = "ok" THEN "valid" ELSE "invalid")
          [] stage = "probe_duration" ->
                 IF o = "ok" THEN GoOn(c, rest, c.kept) ELSE Returned(c, "None")
          [] o = "raise" -> Returned(c, RenderExcept)
          [] stage = "single_pass" ->
                 IF RetriesWithFallback(o = "ok") THEN GoOn(c, rest, c.kept)
                 ELSE GoOn(c, Tail(rest), c.kept)
          [] stage \in { "normalize", "extract" } ->
                 GoOn(c, rest, IF o = "ok" THEN c.kept + 1 ELSE c.kept)
          [] stage \in { "fallback", "concat" } ->
                 IF o = "ok" THEN GoOn(c, rest, c.kept) ELSE Returned(c, "None")
          [] OTHER -> GoOn(c, rest, c.kept)

\* subprocess.run(...) starts the child and blocks
InvokeStart ==
    /\ call.pc = "ready" /\ call.todo # << >>
    /\ \E ch \in { "runs", "hangs" } :
         call' = [call EXCEPT !.pc = "running", !.child = ch,
                              !.hung = @ \/ ch = "hangs"]
    /\ UNCHANGED callFrame

\* subprocess.run(...) returns: the child has exited, or the timeout it was
\* given has run out (TimeoutExpired)
InvokeReturn ==
    /\ call.pc = "running"
    /\ IF call.child = "runs"
       THEN \E o \in { "ok", "fail" } : call' = AfterInvoke(call, o)
       ELSE /\ RunTimeout(Head(call.todo)) # NO_TIMEOUT
            /\ call' = AfterInvoke(call, "raise")
    /\ UNCHANGED callFrame

\* SIGALRM arrives while the call blocks: timeout_handler raises
\* JobTimeoutError out of subprocess.run, once per job
AlarmFires ==
    /\ call.pc = "running" /\ call.alarm
    /\ call' = [AfterInvoke(call, "raise") EXCEPT !.alarm = FALSE]
    /\ UNCHANGED callFrame

NextCall == InvokeStart \/ InvokeReturn \/ AlarmFires

SpecCall == InitCall /\ [][NextCall]_vars

\* the interpreter keeps running, a child that exits is reaped, an armed
\* alarm goes off
SpecCallFair ==
    /\ SpecCall
    /\ WF_vars(InvokeStart) /\ WF_vars(InvokeReturn) /\ WF_vars(AlarmFires)

RenderStages == { "single_image", "single_pass", "fallback", "normalize",
                  "extract", "concat", "mix", "probe_duration", "validate" }

\* C16: every invocation of a render call waits under a timeout, and every
\* render call comes to an end, with a path or None, even when a child
\* process never exits
C16_BoundedInvocations ==
    /\ [](call.pc = "running" /\ Head(call.todo) \in RenderStages
            => RunTimeout(Head(call.todo)) # NO_TIMEOUT)
    /\ (call.todo # << "job_probe" >>)
            => <>(call.pc = "done" /\ call.result \in { "path", "None" })

----------------------------------------------------------------------------
(* Two render calls side by side: the intermediate files each one writes,  *)
(* reads and deletes under os.path.join(self.output_dir, <fixed name>)     *)

MaxDirs == 2                \* output directories in use

Callers == { "A", "B" }
Other(c) == IF c = "A" THEN "B" ELSE "A"
Dirs == 1..MaxDirs

Op(kind, name) == [kind |-> kind, name |-> name]

\* the file operations of one call on its intermediate files, in order
\* (a two-image slideshow, a one-image portrait, a one-clip montage)
TempOps(f) ==
    CASE f = "slideshow" ->
           << Op("write", TEMP_SINGLE),             \* _build_slideshow_single_pass
              Op("read", TEMP_SINGLE),              \* _add_sfx_single_pass / shutil.move
              Op("delete", TEMP_SINGLE) >>          \* _safe_delete(temp_video)
      [] f = "portrait" ->
           << Op("write", "_p_clip_000.mp4"),
              Op("write", TEMP_P_CONCAT),
              Op("read", "_p_clip_000.mp4"),        \* concat demuxer
              Op("write", TEMP_PORTRAIT),
              Op("delete", "_p_clip_000.mp4"),
              Op("delete", TEMP_P_CONCAT),
              Op("read", TEMP_PORTRAIT),            \* shutil.move to _portrait_audio.mp4
              Op("write", TEMP_PORTRAIT_AUDIO),
              Op("delete", TEMP_PORTRAIT),
              Op("read", TEMP_PORTRAIT_AUDIO),      \* shutil.move to output_path
              Op("delete", TEMP_PORTRAIT_AUDIO) >>
      [] OTHER ->
           << Op("write", "_yt_clip_000.mp4"),
              Op("write", TEMP_YT_CONCAT),
              Op("read", "_yt_clip_000.mp4"),
              Op("write", TEMP_YT),
              Op("delete", "_yt_clip_000.mp4"),
              Op("delete", TEMP_YT_CONCAT),
              Op("read", TEMP_YT),                  \* shutil.move to output_path
              Op("delete", TEMP_YT) >>

RenderFormats == { "slideshow", "portrait", "youtube" }

\* os.path.join(self.output_dir, name)
TempPath(dir, name) == << dir, name >>

rendersFrame == << renderVars, job, plan, motion, validation, call, run, sting, ui, retry >>

InitRenders ==
    /\ RenderIdle
    /\ retry = NoRetry
    /\ ui = NoUi
    /\ sting = NoSting
    /\ run = NoRun
    /\ job = NoJob /\ plan = NoPlan /\ motion = NoMotion
    /\ validation = NoValidation /\ call = NoCall
    /\ \E fs \in [Callers -> RenderFormats], ds \in [Callers -> Dirs] :
         renders = [ pc |-> "on",
                     at |-> [c \in Callers |-> "idle"],   \* where each call is
                     fmt |-> fs,
                     dir |-> ds,                             \* self.output_dir
                     i |-> [c \in Callers |-> 1],            \* next operation
                     owner |-> { },        \* << path, caller >>: who wrote the file there
                     created |-> [c \in Callers |-> { }],    \* paths the call wrote
                     overlap |-> FALSE,    \* both calls were under way at once
                     foreign |-> { } ]     \* touches of a file the other call owns

OwnerOf(r, path) ==
    IF \E c \in Callers : << path, c >> \in r.owner
    THEN CHOOSE c \in Callers : << path, c >> \in r.owner
    ELSE "none"

\* a render method is entered
RenderBegin(c) ==
    /\ renders.at[c] = "idle"
    /\ renders' = [renders EXCEPT !.at[c] = "running",
                                  !.overlap = @ \/ renders.at[Other(c)] = "running"]
    /\ UNCHANGED rendersFrame

\* the next file operation of call c
RenderTouch(c) ==
    /\ renders.at[c] = "running"
    /\ LET ops == TempOps(renders.fmt[c])
           op == ops[renders.i[c]]
           path == TempPath(renders.dir[c], op.name)
           own == OwnerOf(renders, path)
           others == own = Other(c) /\ renders.at[Other(c)] = "running"
           cleared == { e \in renders.owner : e[1] # path }
       IN  renders' = [renders EXCEPT
               !.i[c] = @ + 1,
               !.at[c] = IF renders.i[c] = Len(ops) THEN "done" ELSE "running",
               !.owner = CASE op.kind = "write" -> cleared \cup { << path, c >> }
                           [] op.kind = "delete" -> cleared
                           [] OTHER -> @,
               !.created[c] = IF op.kind = "write" THEN @ \cup { path } ELSE @,
               !.foreign = IF others THEN @ \cup { << c, op.kind, path >> } ELSE @]
    /\ UNCHANGED rendersFrame

NextRenders == \E c \in Callers : RenderBegin(c) \/ RenderTouch(c)

SpecRenders == InitRenders /\ [][NextRenders]_vars

\* C17: two render calls that overlap in time create disjoint sets of
\* intermediate paths, and neither reads, overwrites or deletes an
\* intermediate file the other one owns
C17_DisjointTempFiles ==
    renders.pc = "on" =>
        /\ renders.overlap =>
               renders.created["A"] \cap renders.created["B"] = { }
        /\ renders.foreign = { }

----------------------------------------------------------------------------
(* JobRunner.run: the six steps of the pipeline under the 45-minute cap    *)

\* the steps of run() in order; step 5 is split into its three renders
Steps == << "download", "srt", "keywords", "scrape",
            "landscape", "portrait", "youtube", "validate", "finish" >>

StepAfter(s) ==
    LET k == CHOOSE k \in DOMAIN Steps : Steps[k] = s
    IN  IF k = Len(Steps) THEN "end" ELSE Steps[k + 1]

\* the steps that call _check_time_limit before their work
HasCheck == { "download", "srt", "landscape", "portrait", "youtube" }

\* the calls of _check_time_limit that stand inside `try: ... except Exception`
CheckInTry == { "landscape", "portrait" }

\* the steps whose work runs inside `try: ... except Exception`
WorkInTry == { "download", "srt", "scrape", "landscape", "portrait",
               "youtube", "validate" }

\* whether step s has anything to do: the loops over job["urls"] run at
\* least once, _create_outputs got images, there is a youtube source
Applies(r, s) ==
    CASE s \in { "download", "srt" } -> r.urls
      [] s \in { "landscape", "portrait" } -> r.imgs
      [] s = "youtube" -> r.imgs /\ r.vids
      [] OTHER -> TRUE

runFrame == << renderVars, job, plan, motion, validation, call, renders, sting, ui, retry >>

InitRun ==
    /\ RenderIdle
    /\ retry = NoRetry
    /\ ui = NoUi
    /\ sting = NoSting
    /\ job = NoJob /\ plan = NoPlan /\ motion = NoMotion
    /\ validation = NoValidation /\ call = NoCall /\ renders = NoRenders
    /\ \E al \in { "armed", "none" }, u \in BOOLEAN, v \in BOOLEAN, i \in BOOLEAN :
         run = [ pc |-> "start", phase |-> "check",
                 clock |-> "under",     \* elapsed against MAX_JOB_TIME: "under" | "over"
                 alarm |-> al,          \* signal.alarm: "armed" | "spent" | "none" (no SIGALRM)
                 urls |-> u, vids |-> v, imgs |-> i,
                 detected |-> FALSE,    \* a JobTimeoutError was raised
                 late |-> { },          \* steps whose work began after that
                 status |-> "pending",  \* job["status"]
                 returned |-> "none" ]  \* what run() returned

\* `except JobTimeoutError` of run(): status "error", return False
TimedOut(r) ==
    [r EXCEPT !.pc = "end", !.detected = TRUE, !.status = "error",
              !.returned = "False"]

\* the head of run(): the safety check, then status "running"
RunStart ==
    /\ run.pc = "start"
    /\ \E safe \in BOOLEAN :
         IF safe
         THEN run' = [run EXCEPT !.pc = Steps[1], !.status = "running"]
         ELSE run' = [run EXCEPT !.pc = "end", !.returned = "False"]
    /\ UNCHANGED runFrame

\* a step is entered: _check_time_limit where the step has one
StepCheck ==
    /\ run.pc \notin { "start", "finish", "end" } /\ run.phase = "check"
    /\ LET s == run.pc
       IN  IF ~Applies(run, s)
           THEN run' = [run EXCEPT !.pc = StepAfter(s)]
           ELSE IF s \in HasCheck /\ run.clock = "over"
           THEN IF s \in CheckInTry
                THEN run' = [run EXCEPT !.pc = StepAfter(s), !.detected = TRUE]
                ELSE run' = TimedOut(run)
           ELSE run' = [run EXCEPT
                           !.phase = "work",
                           !.late = IF run.detected THEN @ \cup { s } ELSE @]
    /\ UNCHANGED runFrame

\* the work of a step comes to its end
StepWork ==
    /\ run.pc \notin { "start", "finish", "end" } /\ run.phase = "work"
    /\ run' = [run EXCEPT !.pc = StepAfter(run.pc), !.phase = "check"]
    /\ UNCHANGED runFrame

\* "# mark as done": status "done", the alarm is cancelled, return True
RunFinish ==
    /\ run.pc = "finish"
    /\ run' = [run EXCEPT !.pc = "end", !.status = "done", !.returned = "True",
                          !.alarm = IF @ = "armed" THEN "spent" ELSE @,
                          !.late = IF run.detected THEN @ \cup { "finish" } ELSE @]
    /\ UNCHANGED runFrame

\* the elapsed time passes MAX_JOB_TIME; an armed alarm goes off at that
\* moment and timeout_handler raises JobTimeoutError where the interpreter
\* stands: inside a try/except Exception it is taken for a failure of the
\* unit at hand, anywhere else it reaches run()
ClockPassesCap ==
    /\ run.pc # "end" /\ run.clock = "under"
    /\ IF run.alarm = "armed"
       THEN IF run.phase = "work" /\ run.pc \in WorkInTry
            THEN run' = [run EXCEPT !.clock = "over", !.alarm = "spent",
                                    !.detected = TRUE]
            ELSE run' = [TimedOut(run) EXCEPT !.clock = "over", !.alarm = "spent"]
       ELSE run' = [run EXCEPT !.clock = "over"]
    /\ UNCHANGED runFrame

NextRun == RunStart \/ StepCheck \/ StepWork \/ RunFinish \/ ClockPassesCap

SpecRun == InitRun /\ [][NextRun]_vars

\* C18: once the job is found to be past MAX_JOB_TIME (the alarm went off or
\* _check_time_limit raised), run() begins no further step, and it ends
\* with status "error" and the value False, never with status "done"
C18_JobTimeCap ==
    run.pc # "idle" =>
        /\ run.late = { }
        /\ run.detected => run.status # "done"
        /\ (run.pc = "end" /\ run.detected)
               => run.status = "error" /\ run.returned = "False"

----------------------------------------------------------------------------
(* Properties of the merged output *)

\* C21: when the mixer has attached its track to the composite, the audio
\* track spans the whole composite, so the output at output_path is exactly
\* as long as the composite video: the shortest-stream merge neither cuts
\* the video at the end of the last stinger nor pads it
C21_FullDurationTrack ==
    (Done /\ CleanRun /\ NoOverlay /\ hist.sfx = "merged" /\ result = "path") =>
        /\ AudioEnd(hist.stingers) >= hist.composite.dur
        /\ disk[OUTPUT].dur = hist.composite.dur

----------------------------------------------------------------------------
(* Properties of the montage sampler *)

\* the sub-clips sampled from source `vid`
SpecsOf(vid) == { k \in DOMAIN clip_specs : clip_specs[k].vid = vid }

\* the bucket, of `count` equal buckets of the safe zone of its source, in
\* which a sub-clip starts
BucketOf(spec, count) ==
    LET D == videos[spec.vid].duration
        zone == EndSafe(D) - StartSafe(D)
    IN  Min(count - 1, ((spec.start - StartSafe(D)) * count) \div zone)

\* C22: the sub-clips sampled from one accepted source start in pairwise
\* different buckets of its safe zone, the zone being cut into as many equal
\* buckets as sub-clips were drawn from it, so every bucket holds one start
C22_OneStartPerBucket ==
    (fmt = "youtube" /\ pc # "start") =>
        \A vid \in DOMAIN videos :
            \A j, k \in SpecsOf(vid) :
                j # k => BucketOf(clip_specs[j], Cardinality(SpecsOf(vid)))
                             # BucketOf(clip_specs[k], Cardinality(SpecsOf(vid)))

\* the montage selection has run on a non-empty candidate list
Selected == fmt = "youtube" /\ pc \notin { "start", "sample" } /\ clip_specs # << >>

\* C23: the selected clips are the shortest prefix of the shuffled candidate
\* list whose cumulative duration reaches the target, or the whole list when
\* the target is never reached: all selected clips but the last stay
\* strictly below the target, and every later candidate is discarded
C23_SelectionStopsAtTarget ==
    Selected =>
        LET n == Len(final_specs)
            target == MixTargetDuration(settings)
        IN  /\ n <= Len(clip_specs)
            /\ final_specs = SubSeq(clip_specs, 1, n)
            /\ n = Len(clip_specs) \/ SumSpecs(final_specs) >= target
            /\ n > 0 => SumSpecs(SubSeq(final_specs, 1, n - 1)) < target
            /\ total_dur = SumSpecs(final_specs)

C23_Witness ==
    /\ Selected /\ Len(final_specs) >= 2
    /\ Len(final_specs) < Len(clip_specs)
    /\ SumSpecs(final_specs) > MixTargetDuration(settings)

----------------------------------------------------------------------------
(* The stinger selection and the gains of _add_sfx_single_pass             *)

MaxStingClips == 4          \* most clips of a track handed to the mixer

GAIN_CHING == 2500          \* volume * 2.5 for a signature sound (thousandths)
GAIN_OTHER == 2000          \* volume * 2.0 for any other sound
GAIN_CEILING == 3000        \* min(..., 3.0)

\* the sound files by the stem of their name; a signature sound is one whose
\* lowered path contains 'ching', 'ping' or 'ding'
IsChing(s) == s \in { "ching", "ping", "ding" }

\* self.sound_files as the folder scan may leave it (never empty here: an
\* empty pool returns before the selection)
StingPools == { << "boom" >>, << "ching" >>,
                << "boom", "whoosh" >>, << "ching", "boom" >>,
                << "boom", "whoosh", "snap" >>,
                << "ching", "boom", "whoosh" >>,
                << "ching", "ping", "boom", "whoosh" >> }

\* soundVolume (thousandths) as float(settings.get("soundVolume", 1.0)) reads it
Volumes == { -500, 0, 500, 1000, 1200, 1500, 2000 }

RECURSIVE Filter(_, _)
\* [s for s in pool if keep[s]]
Filter(pool, keep) ==
    IF pool = << >> THEN << >>
    ELSE (IF Head(pool) \in keep THEN << Head(pool) >> ELSE << >>)
         \o Filter(Tail(pool), keep)

Elems(s) == { s[k] : k \in DOMAIN s }

\* other_sounds = [s for s in self.sound_files if s not in ching_sounds]
OtherSounds(pool) == Filter(pool, { s \in Elems(pool) : ~IsChing(s) })

\* ching_sounds, after `if not ching_sounds: ching_sounds = other_sounds[:2] ...`
ChingSounds(pool) ==
    LET named == Filter(pool, { s \in Elems(pool) : IsChing(s) })
        other == OtherSounds(pool)
    IN  IF named # << >> THEN named
        ELSE IF Len(other) >= 2 THEN SubSeq(other, 1, 2) ELSE other

\* available = [s for s in other_sounds if s not in used] or other_sounds
Available(other, used) ==
    LET fresh == Filter(other, Elems(other) \ used)
    IN  IF fresh # << >> THEN fresh ELSE other

\* used.add(sound); if len(used) >= len(other_sounds): used.clear()
UsedAfter(other, used, sound) ==
    IF Cardinality(used \cup { sound }) >= Len(other) THEN { }
    ELSE used \cup { sound }

\* mutant: the gain is not clamped
BoostUnclamped(volume, sound) ==
    (volume * (IF IsChing(sound) THEN GAIN_CHING ELSE GAIN_OTHER)) \div 1000

\* boost = min(volume * (2.5 if is_ching else 2.0), 3.0)
Boost(volume, sound) ==
    Min((volume * (IF IsChing(sound) THEN GAIN_CHING ELSE GAIN_OTHER)) \div 1000,
        GAIN_CEILING)

stingFrame == << renderVars, job, plan, motion, validation, call, renders, run, ui, retry >>

InitSting ==
    /\ RenderIdle
    /\ retry = NoRetry
    /\ ui = NoUi
    /\ job = NoJob /\ plan = NoPlan /\ motion = NoMotion
    /\ validation = NoValidation /\ call = NoCall /\ renders = NoRenders
    /\ run = NoRun
    /\ \E pool \in StingPools, v \in Volumes, n \in 0..MaxStingClips :
         sting = [ pc |-> "start",
                   sound_files |-> pool, volume |-> v, num_clips |-> n,
                   limit |-> 0,             \* iterations the placement loop makes
                   used |-> { },            \* local `used`
                   sounds_to_use |-> << >>, \* local `sounds_to_use`
                   branch |-> << >>,        \* which branch chose each of them
                   boosts |-> << >> ]       \* the volume= of every adelay filter

\* the head of the function up to the loop: no transition, nothing to place
StingPrepare ==
    /\ sting.pc = "start"
    /\ LET limit == Len(StingerDelays(sting.num_clips, SECONDS_PER_IMAGE_DEFAULT))
       IN  sting' = [sting EXCEPT !.limit = limit,
                                  !.pc = IF limit = 0 THEN "copied" ELSE "pick"]
    /\ UNCHANGED stingFrame

\* one iteration of the loop: `random.random() < 0.25 and ching_sounds`
\* chooses the signature branch, else the pool of the other sounds
StingPick ==
    /\ sting.pc = "pick" /\ Len(sting.sounds_to_use) < sting.limit
    /\ LET ching == ChingSounds(sting.sound_files)
           other == OtherSounds(sting.sound_files)
       IN  \E quarter \in BOOLEAN :
             IF quarter /\ ching # << >>
             THEN \E sound \in Elems(ching) :
                    sting' = [sting EXCEPT
                                 !.sounds_to_use = Append(@, sound),
                                 !.branch = Append(@, "ching")]
             ELSE \E sound \in Elems(IF Available(other, sting.used) # << >>
                                     THEN Available(other, sting.used)
                                     ELSE sting.sound_files) :
                    sting' = [sting EXCEPT
                                 !.sounds_to_use = Append(@, sound),
                                 !.branch = Append(@, "other"),
                                 !.used = UsedAfter(other, @, sound)]
    /\ UNCHANGED stingFrame

\* the adelay/volume filters, one for every chosen sound
StingFilters ==
    /\ sting.pc = "pick" /\ Len(sting.sounds_to_use) = sting.limit
    /\ sting' = [sting EXCEPT
                    !.pc = "built",
                    !.boosts = [i \in DOMAIN sting.sounds_to_use |->
                                   Boost(sting.volume, sting.sounds_to_use[i])]]
    /\ UNCHANGED stingFrame

NextSting == StingPrepare \/ StingPick \/ StingFilters

SpecSting == InitSting /\ [][NextSting]_vars

\* C24: when the pool of the other (non-signature) sounds holds two sounds
\* or more, no such sound is chosen at two consecutive boundaries, whatever
\* the random choices and also right after the `used` set was cleared
C24_NoImmediateRepeat ==
    (sting.pc # "idle" /\ Len(OtherSounds(sting.sound_files)) >= 2) =>
        \A k \in 1..(Len(sting.sounds_to_use) - 1) :
            ~(/\ sting.sounds_to_use[k] = sting.sounds_to_use[k + 1]
              /\ ~IsChing(sting.sounds_to_use[k]))

\* C25: every gain handed to the filter graph is at most the ceiling, and
\* for a volume that is not negative a signature sound never gets a lower
\* gain than any other sound
C25_GainClamp ==
    sting.pc = "built" =>
        /\ \A i \in DOMAIN sting.boosts : sting.boosts[i] <= GAIN_CEILING
        /\ sting.volume >= 0 =>
              \A i, j \in DOMAIN sting.boosts :
                  (IsChing(sting.sounds_to_use[i]) /\ ~IsChing(sting.sounds_to_use[j]))
                      => sting.boosts[i] >= sting.boosts[j]

C25_Witness ==
    /\ sting.pc = "built" /\ sting.volume = 1200
    /\ \E i, j \in DOMAIN sting.boosts :
          /\ IsChing(sting.sounds_to_use[i]) /\ ~IsChing(sting.sounds_to_use[j])
          /\ sting.boosts[i] = GAIN_CEILING /\ sting.boosts[j] < GAIN_CEILING

----------------------------------------------------------------------------
(* DaEditorApp: the job queue of the window                                *)

MaxJobs == 3                \* most entries of self.jobs

JobStatuses == { "queued", "processing", "error", "done" }

\* self.jobs after _scan_for_jobs: what the job.json files of earlier
\* sessions hold
ScannedJobs == UNION { [1..n -> JobStatuses] : n \in 0..(MaxJobs - 1) }

queueFrame == << renderVars, job, plan, motion, validation, call, renders, run, sting, retry >>

InitQueue ==
    /\ RenderIdle
    /\ retry = NoRetry
    /\ job = NoJob /\ plan = NoPlan /\ motion = NoMotion
    /\ validation = NoValidation /\ call = NoCall /\ renders = NoRenders
    /\ run = NoRun /\ sting = NoSting
    /\ \E js \in ScannedJobs :
         ui = [ pc |-> "on",
                jobs |-> js,        \* job["status"] of every entry of self.jobs
                threads |-> { },    \* entries whose worker thread is alive
                timers |-> 0,       \* pending after(100, self._process_next_job)
                resumed |-> { },    \* entries that were incomplete at a resume
                picked |-> { } ]    \* entries a worker thread was started for

\* the entries _process_next_job would take: `job.get("status") == "queued"`
Queued(u) == { j \in DOMAIN u.jobs : u.jobs[j] = "queued" }

\* _process_next_job: the first queued entry becomes "processing" and a
\* thread running _run_job_processor for it is started
ProcessNextJob(u) ==
    IF Queued(u) = { } THEN u
    ELSE LET j == CHOOSE j \in Queued(u) : \A k \in Queued(u) : j <= k
         IN  [u EXCEPT !.jobs[j] = "processing",
                       !.threads = @ \cup { j },
                       !.picked = @ \cup { j }]

\* _start_job with links entered: the new entry is appended as "queued",
\* then _process_next_job
StartJob ==
    /\ ui.pc = "on" /\ Len(ui.jobs) < MaxJobs
    /\ ui' = ProcessNextJob([ui EXCEPT !.jobs = Append(@, "queued")])
    /\ UNCHANGED queueFrame

\* _resume_all_jobs: nothing to do when every entry is "done", else
\* _process_next_job
ResumeAllJobs ==
    /\ ui.pc = "on"
    /\ LET incomplete == { j \in DOMAIN ui.jobs : ui.jobs[j] # "done" }
       IN  IF incomplete = { } THEN ui' = ui
           ELSE ui' = ProcessNextJob([ui EXCEPT !.resumed = @ \cup incomplete])
    /\ UNCHANGED queueFrame

\* the worker thread of entry j comes to the end of _run_job_processor:
\* "done" or, after an exception, "error"; the next look at the queue is
\* scheduled
RunJobProcessorEnds ==
    /\ ui.pc = "on"
    /\ \E j \in ui.threads, st \in { "done", "error" } :
         ui' = [ui EXCEPT !.jobs[j] = st,
                          !.threads = @ \ { j },
                          !.timers = @ + 1]
    /\ UNCHANGED queueFrame

\* a scheduled after(100, self._process_next_job) fires
TimerFires ==
    /\ ui.pc = "on" /\ ui.timers > 0
    /\ ui' = ProcessNextJob([ui EXCEPT !.timers = @ - 1])
    /\ UNCHANGED queueFrame

NextQueue == StartJob \/ ResumeAllJobs \/ RunJobProcessorEnds \/ TimerFires

SpecQueue == InitQueue /\ [][NextQueue]_vars

\* worker threads end and the event loop runs the callbacks it was given
SpecQueueFair ==
    SpecQueue /\ WF_vars(RunJobProcessorEnds) /\ WF_vars(TimerFires)

\* C26: every entry that was not "done" when _resume_all_jobs was invoked is
\* eventually taken by _process_next_job and run
C26_ResumeRunsIncomplete ==
    \A j \in 1..MaxJobs : (ui.pc = "on" /\ j \in ui.resumed) ~> (j \in ui.picked)

\* C28: at no moment are two worker threads alive
C28_OneJobAtATime ==
    ui.pc = "on" =>
        Cardinality({ j \in ui.threads : ui.jobs[j] = "processing" }) <= 1

----------------------------------------------------------------------------
(* retry_with_backoff: the wrapper around JobRunner._download_with_retry   *)

MaxRetries == 3             \* largest max_retries of a decorated function

JITTER_PERCENT == 10        \* jitter = random.uniform(0, delay * 0.1)

\* (base_delay, max_delay) in ms: the decorator's own defaults 2.0 and 30.0,
\* and a pair whose ceiling is reached within MaxRetries attempts
DelaySettings == { << 2000, 30000 >>, << 2000, 5000 >> }

\* how one invocation of the wrapped function ends: it returns, it raises
\* with a message that names a network error, or it raises anything else
FuncOutcomes == { "value", "network", "other" }

\* `'403' in error_str or '404' in error_str or 'timeout' in
\* error_str.lower() or 'connection' in error_str.lower()`
IsNetworkError(o) == o = "network"

\* mutant: the delay doubles without a ceiling
DelayUncapped(attempt, base_delay, max_delay) == base_delay * 2 ^ attempt

\* delay = min(base_delay * (2 ** attempt), max_delay)
Delay(attempt, base_delay, max_delay) == Min(base_delay * 2 ^ attempt, max_delay)

\* random.uniform(0, delay * 0.1): its two ends and a value between them
Jitter(delay) == { 0, (delay * JITTER_PERCENT) \div 200, (delay * JITTER_PERCENT) \div 100 }

retryFrame == << renderVars, job, plan, motion, validation, call, renders, run, sting, ui >>

InitRetry ==
    /\ RenderIdle
    /\ job = NoJob /\ plan = NoPlan /\ motion = NoMotion
    /\ validation = NoValidation /\ call = NoCall /\ renders = NoRenders
    /\ run = NoRun /\ sting = NoSting /\ ui = NoUi
    /\ \E R \in 0..MaxRetries, ds \in DelaySettings :
         retry = [ pc |-> "call",
                   max_retries |-> R, base_delay |-> ds[1], max_delay |-> ds[2],
                   attempt |-> 0,           \* the loop variable
                   total_delay |-> 0,       \* local `total_delay`
                   seen |-> << >>,          \* how every invocation of func ended
                   slept |-> << >>,         \* every time.sleep(total_delay)
                   last_exception |-> "none",
                   raised |-> "none" ]      \* the exception that left the wrapper

\* one pass of `try: return func(...) except Exception as e:` up to the
\* sleep: return, break and `raise last_exception`, bare `raise`, or a delay
RetryAttempt ==
    /\ retry.pc = "call"
    /\ \E o \in FuncOutcomes :
         LET r == [retry EXCEPT !.seen = Append(@, o)]
         IN  IF o = "value"
             THEN retry' = [r EXCEPT !.pc = "returned"]
             ELSE IF retry.attempt = retry.max_retries
             THEN retry' = [r EXCEPT !.pc = "raised", !.last_exception = o,
                                     !.raised = o]
             ELSE \E jitter \in Jitter(Delay(retry.attempt, retry.base_delay,
                                             retry.max_delay)) :
                    IF IsNetworkError(o)
                    THEN retry' = [r EXCEPT
                                     !.pc = "sleep", !.last_exception = o,
                                     !.total_delay =
                                         Delay(retry.attempt, retry.base_delay,
                                               retry.max_delay) + jitter]
                    ELSE retry' = [r EXCEPT !.pc = "raised", !.last_exception = o,
                                            !.raised = o]
    /\ UNCHANGED retryFrame

\* time.sleep(total_delay), then the next value of `attempt`
RetrySleep ==
    /\ retry.pc = "sleep"
    /\ retry' = [retry EXCEPT !.pc = "call",
                              !.slept = Append(@, retry.total_delay),
                              !.attempt = @ + 1]
    /\ UNCHANGED retryFrame

NextRetry == RetryAttempt \/ RetrySleep

SpecRetry == InitRetry /\ [][NextRetry]_vars

\* C27: at most max_retries + 1 invocations; a further invocation only after
\* a network error; any other exception leaves the wrapper at once; after
\* the last allowed failure the last exception is raised; the wait before
\* retry a is between min(base_delay * 2^a, max_delay) and 1.1 times that
C27_RetryWithBackoff ==
    retry.pc # "idle" =>
        LET n == Len(retry.seen)
            D(a) == IF retry.base_delay * 2 ^ a < retry.max_delay
                    THEN retry.base_delay * 2 ^ a ELSE retry.max_delay
        IN  /\ n <= retry.max_retries + 1
            /\ \A k \in 1..(n - 1) : retry.seen[k] = "network"
            /\ (n > 0 /\ retry.seen[n] = "other")
                   => retry.pc = "raised" /\ retry.raised = "other"
            /\ (n > 0 /\ retry.seen[n] = "value") => retry.pc = "returned"
            /\ (n = retry.max_retries + 1 /\ retry.seen[n] # "value")
                   => retry.pc = "raised" /\ retry.raised = retry.seen[n]
            /\ retry.pc = "raised"
                   => retry.seen[n] = "other" \/ n = retry.max_retries + 1
            /\ retry.pc = "call" => Len(retry.slept) = n
            /\ \A a \in 0..(Len(retry.slept) - 1) :
                   /\ D(a) <= retry.slept[a + 1]
                   /\ 10 * retry.slept[a + 1] <= 11 * D(a)

C27_Witness ==
    /\ retry.pc = "raised" /\ retry.raised = "network"
    /\ retry.max_retries = MaxRetries /\ retry.max_delay = 5000
    /\ Len(retry.seen) = MaxRetries + 1
    /\ retry.slept[MaxRetries] = 5500

----------------------------------------------------------------------------
(* Properties of a render into a directory that was used before           *)

\* C29: the file a render call returns was written by that call: a file an
\* earlier render left at output_path or at a fixed temp path is never what
\* the call validates and returns
C29_ReturnsOwnFile ==
    (Done /\ result = "path") =>
        /\ ~disk[OUTPUT].stale
        /\ ~hist.composite.stale

----------------------------------------------------------------------------
(* Properties of the status JobRunner.run leaves behind                    *)

\* the moves of job["status"] the pipeline is meant to make
StatusMoves == { << "pending", "running" >>, << "running", "done" >>,
                 << "running", "error" >> }

\* run() has returned what its status says
ReturnMatchesStatus ==
    run.pc = "end" =>
        /\ run.returned = "True" <=> run.status = "done"
        /\ run.returned = "False" <=> run.status = "error"

\* C30: the status only moves pending -> running -> (done | error), and
\* run() returns True exactly when it ends with status "done" and False
\* exactly when it ends with status "error", on every path
C30_StatusMatchesResult ==
    /\ [](ReturnMatchesStatus)
    /\ [][run.pc # "idle" /\ run'.status # run.status
              => << run.status, run'.status >> \in StatusMoves]_vars

====
